---------------------------- MODULE Spec2Model ----------------------------
(***************************************************************************)
(* A model of the document-to-notes pipeline of news_tool: the relevance   *)
(* scorer, the article structurer, the chunk analyzer and aggregator, the  *)
(* PDF text extractor, the keyword segmenter and the two HTTP entry points *)
(* that drive them.                                                        *)
(*                                                                         *)
(* Python strings are TLA+ strings, handled character by character with    *)
(* Len, SubSeq and \o.  Two characters cannot be written in a TLA+ string: *)
(* the backquote, written "~" here, and the bullet U+2022, written "@".    *)
(* No input of the model contains "~" or "@" in any other meaning.         *)
(***************************************************************************)
EXTENDS Integers, Sequences, FiniteSets, TLC

VARIABLES
    env,    \* the process environment read by get_llm: API keys, provider, importable clients
    pc,     \* the position of the request being served: "idle" when there is none, "done" when it has returned
    req,    \* the request being served: the operation and its inputs
    res,    \* its outcome: the value returned or the exception raised
    loc,    \* the local variables of a handler that is inside its loop
    cache,  \* the cache of get_llm: its entries from the least to the most recently used
    callers,\* for each concurrent caller of get_llm, where it is in the call and what it got
    built,  \* the number of clients constructed so far; a new client is numbered built + 1
    store,  \* the notes file: for each date it holds, the list of the notes saved under it
    savers  \* for each concurrent save_note request, where it is and the store it loaded

vars == <<env, pc, req, res, loc, cache, callers, built, store, savers>>

-----------------------------------------------------------------------------
(* Python's str methods, as the source uses them.                          *)

\* F(v), with v computed once however often F uses it
With(v, F(_)) == CHOOSE y \in {F(x) : x \in {v}} : TRUE

\* s[i-1:i]: the character at index i (1-based), "" outside the string
Ch(s, i) == IF i \in 1..Len(s) THEN SubSeq(s, i, i) ELSE ""

LowerAZ == "abcdefghijklmnopqrstuvwxyz"
UpperAZ == "ABCDEFGHIJKLMNOPQRSTUVWXYZ"
Digits09 == "0123456789"

LowerSet == {Ch(LowerAZ, i) : i \in 1..26}
UpperSet == {Ch(UpperAZ, i) : i \in 1..26}
DigitSet == {Ch(Digits09, i) : i \in 1..10}
SpaceSet == {" ", "\n", "\t", "\r"}

LowerOf == [c \in UpperSet |-> Ch(LowerAZ, CHOOSE i \in 1..26 : Ch(UpperAZ, i) = c)]

DigitVal == [c \in DigitSet |-> (CHOOSE i \in 1..10 : Ch(Digits09, i) = c) - 1]

IsSpace(c) == c \in SpaceSet
IsDigit(c) == c \in DigitSet
IsUpper(c) == c \in UpperSet
IsAlpha(c) == c \in LowerSet \cup UpperSet
IsAlnum(c) == c \in LowerSet \cup UpperSet \cup DigitSet

Min(a, b) == IF a <= b THEN a ELSE b
Max(a, b) == IF a >= b THEN a ELSE b

\* "".join(parts[lo-1:hi]) for a sequence of strings, by halving
RECURSIVE ConcatRange(_, _, _)
ConcatRange(parts, lo, hi) ==
    IF lo > hi THEN ""
    ELSE IF lo = hi THEN parts[lo]
    ELSE ConcatRange(parts, lo, (lo + hi) \div 2) \o ConcatRange(parts, (lo + hi) \div 2 + 1, hi)

\* "".join(parts)
Concat(parts) == With(parts, LAMBDA p : ConcatRange(p, 1, Len(p)))

\* sep.join(l)
Join(sep, l0) ==
    With(l0, LAMBDA l :
      Concat([i \in 1..(2 * Len(l) - 1) |-> IF i % 2 = 1 THEN l[(i + 1) \div 2] ELSE sep]))

\* s.lower()
Lower(s0) ==
    With(s0, LAMBDA s :
      Concat([i \in 1..Len(s) |-> IF Ch(s, i) \in UpperSet THEN LowerOf[Ch(s, i)] ELSE Ch(s, i)]))

\* s[:n] for n >= 0
Prefix(s0, n) == With(s0, LAMBDA s : SubSeq(s, 1, Min(n, Len(s))))

\* s[i:] for a 0-based i >= 0
Suffix(s0, i) == With(s0, LAMBDA s : SubSeq(s, i + 1, Len(s)))

\* the index of the first character of s from index i on that is in chars,
\* Len(s) + 1 when there is none
FirstIn(s0, i0, chars) ==
    With(s0, LAMBDA s : With(i0, LAMBDA i :
      IF i > Len(s) THEN Len(s) + 1
      ELSE CHOOSE x \in i..(Len(s) + 1) :
               /\ x = Len(s) + 1 \/ Ch(s, x) \in chars
               /\ \A k \in i..(x - 1) : Ch(s, k) \notin chars))

\* the index after the run of characters in chars that starts at index i of
\* s: i itself when there is no such run
FirstNotIn(s0, i0, chars) ==
    With(s0, LAMBDA s : With(i0, LAMBDA i :
      IF i > Len(s) THEN i
      ELSE CHOOSE x \in i..(Len(s) + 1) :
               /\ x = Len(s) + 1 \/ Ch(s, x) \notin chars
               /\ \A k \in i..(x - 1) : Ch(s, k) \in chars))

\* the index of the last character of s that is not in chars, 0 when there is none
LastNotIn(s0, chars) ==
    With(s0, LAMBDA s :
      CHOOSE x \in 0..Len(s) :
          /\ x = 0 \/ Ch(s, x) \notin chars
          /\ \A k \in (x + 1)..Len(s) : Ch(s, k) \in chars)

\* s.lstrip(chars), s.rstrip(chars), s.strip(chars): chars is a set of characters
LStripSet(s0, chars) == With(s0, LAMBDA s : SubSeq(s, FirstNotIn(s, 1, chars), Len(s)))

RStripSet(s0, chars) == With(s0, LAMBDA s : SubSeq(s, 1, LastNotIn(s, chars)))

StripSet(s, chars) == LStripSet(RStripSet(s, chars), chars)

\* s.strip()
Strip(s) == StripSet(s, SpaceSet)

\* k in t
Contains(t0, k0) ==
    With(t0, LAMBDA t : With(k0, LAMBDA k :
      \E i \in 1..(Len(t) - Len(k) + 1) : SubSeq(t, i, i + Len(k) - 1) = k))

StartsWith(s0, p) == With(s0, LAMBDA s : Len(s) >= Len(p) /\ SubSeq(s, 1, Len(p)) = p)
EndsWith(s0, p) == With(s0, LAMBDA s : Len(s) >= Len(p) /\ SubSeq(s, Len(s) - Len(p) + 1, Len(s)) = p)

\* any(c.isalnum() for c in s)
AnyAlnum(s0) == With(s0, LAMBDA s : \E i \in 1..Len(s) : IsAlnum(Ch(s, i)))

\* the number of keys, of a sequence of them, that are in t
CountIn(keys, t0) == With(t0, LAMBDA t : Cardinality({i \in 1..Len(keys) : Contains(t, keys[i])}))

-----------------------------------------------------------------------------
(* Python values, as json.loads builds them.  A value is [t, v]: the tag   *)
(* t names the type, v is the payload.                                     *)
(*   "none"  v = 0                 None                                    *)
(*   "bool"  v = TRUE or FALSE                                             *)
(*   "num"   v = <<neg, i, f>>     the number (-1)^neg * i.f ; f = "" for  *)
(*                                 an int, the fraction's digits for a     *)
(*                                 float                                   *)
(*   "str"   v = the string                                                *)
(*   "list"  v = the sequence of elements                                  *)
(*   "dict"  v = the sequence of <<key, value>> pairs, keys distinct, in   *)
(*                                 insertion order                         *)

PyNone == [t |-> "none", v |-> 0]
PyBool(b) == [t |-> "bool", v |-> b]
PyInt(i) == [t |-> "num", v |-> <<i < 0, IF i < 0 THEN -i ELSE i, "">>]
PyFloat(neg, i, f) == [t |-> "num", v |-> <<neg, i, f>>]
PyStr(s) == [t |-> "str", v |-> s]
PyList(l) == [t |-> "list", v |-> l]
PyDict(d) == [t |-> "dict", v |-> d]

IsInt(x) == x.t = "num" /\ x.v[3] = ""

\* d[key] = val on the pairs of a dict: a new key goes last, an old key keeps its place
DictSet(d0, key, val) ==
    With(d0, LAMBDA d :
      IF \E i \in 1..Len(d) : d[i][1] = key
      THEN [i \in 1..Len(d) |-> IF d[i][1] = key THEN <<key, val>> ELSE d[i]]
      ELSE Append(d, <<key, val>>))

HasKey(d0, key) == With(d0, LAMBDA d : \E i \in 1..Len(d) : d[i][1] = key)

\* d.get(key, default) on the pairs of a dict
DictGet(d0, key, default) ==
    With(d0, LAMBDA d :
      IF \E i \in 1..Len(d) : d[i][1] = key
      THEN d[CHOOSE i \in 1..Len(d) : d[i][1] = key][2]
      ELSE default)

\* bool(x): Python's truth value
Truthy(x0) ==
    With(x0, LAMBDA x :
    CASE x.t = "none" -> FALSE
      [] x.t = "bool" -> x.v
      [] x.t = "num"  -> ~(x.v[2] = 0 /\ \A i \in 1..Len(x.v[3]) : Ch(x.v[3], i) = "0")
      [] x.t = "str"  -> x.v /= ""
      [] x.t = "list" -> x.v /= <<>>
      [] x.t = "dict" -> x.v /= <<>>)

\* str(i) for an integer i >= 0
RECURSIVE NatStr(_)
NatStr(i) == IF i < 10 THEN Ch(Digits09, i + 1) ELSE NatStr(i \div 10) \o Ch(Digits09, (i % 10) + 1)

\* repr of a float's fraction digits: trailing zeros dropped, one digit kept
FracStr(f) == With(RStripSet(f, {"0"}), LAMBDA g : IF g = "" THEN "0" ELSE g)

NumStr(n) ==
    (IF n[1] /\ (n[2] /= 0 \/ n[3] /= "") THEN "-" ELSE "")
        \o NatStr(n[2]) \o (IF n[3] = "" THEN "" ELSE "." \o FracStr(n[3]))

\* str(x) and repr(x).  The strings of the model hold no quote or backslash
\* that repr would have to escape.
RECURSIVE PyRepr(_)
PyRepr(x0) ==
    With(x0, LAMBDA x :
      CASE x.t = "none" -> "None"
        [] x.t = "bool" -> IF x.v THEN "True" ELSE "False"
        [] x.t = "num"  -> NumStr(x.v)
        [] x.t = "str"  -> "'" \o x.v \o "'"
        [] x.t = "list" -> "[" \o Join(", ", [i \in 1..Len(x.v) |-> PyRepr(x.v[i])]) \o "]"
        [] x.t = "dict" -> "{" \o Join(", ", [i \in 1..Len(x.v) |->
                                       "'" \o x.v[i][1] \o "': " \o PyRepr(x.v[i][2])]) \o "}")

str(x0) == With(x0, LAMBDA x : IF x.t = "str" THEN x.v ELSE PyRepr(x))

-----------------------------------------------------------------------------
(* json.loads, for the JSON the transformer can answer with: objects,      *)
(* arrays, strings without escapes, numbers without exponent, true, false  *)
(* and null, with whitespace between the tokens.  A parse result is        *)
(* [ok, v, n]: whether a value was read, the value, and the index of the   *)
(* first character after it.                                               *)

ParseFail == [ok |-> FALSE, v |-> PyNone, n |-> 0]
Parsed(v, n) == [ok |-> TRUE, v |-> v, n |-> n]

\* the index of the first character from i on that is not whitespace
SkipWs(s, i) == FirstNotIn(s, i, SpaceSet)

\* the index of the first character from i on that is not a digit
SkipDigits(s, i) == FirstNotIn(s, i, DigitSet)

\* int(s) for a string of digits
RECURSIVE DigitsVal(_)
DigitsVal(s0) ==
    With(s0, LAMBDA s :
      IF s = "" THEN 0 ELSE 10 * DigitsVal(SubSeq(s, 1, Len(s) - 1)) + DigitVal[Ch(s, Len(s))])

\* a string literal whose opening quote is at i; a control character or a
\* backslash inside it ends the parse
ParseString(s, i) ==
    With(FirstIn(s, i + 1, {"\""}), LAMBDA j :
      IF j > Len(s) THEN ParseFail
      ELSE IF \E m \in (i + 1)..(j - 1) : Ch(s, m) \in {"\n", "\t", "\r", "\\"} THEN ParseFail
      ELSE Parsed(PyStr(SubSeq(s, i + 1, j - 1)), j + 1))

\* -?(0|[1-9]\d*)(\.\d+)? at i
ParseNumber(s, i) ==
    With(IF Ch(s, i) = "-" THEN i + 1 ELSE i, LAMBDA a :
      With(IF Ch(s, a) = "0" THEN a + 1 ELSE SkipDigits(s, a), LAMBDA b :
        With(Ch(s, b) = "." /\ IsDigit(Ch(s, b + 1)), LAMBDA hasFrac :
          With(IF hasFrac THEN SkipDigits(s, b + 1) ELSE b, LAMBDA c :
            IF b = a THEN ParseFail
            ELSE Parsed(PyFloat(a > i, DigitsVal(SubSeq(s, a, b - 1)),
                                IF hasFrac THEN SubSeq(s, b + 1, c - 1) ELSE ""), c)))))

RECURSIVE ParseValue(_, _)
RECURSIVE ParseElems(_, _, _)
RECURSIVE ParseMembers(_, _, _)
RECURSIVE ElemAt(_, _)
RECURSIVE MemberAt(_, _)

ParseValue(s, i0) ==
    With(SkipWs(s, i0), LAMBDA i :
      With(Ch(s, i), LAMBDA c :
        CASE c = "\"" -> ParseString(s, i)
          [] c = "{" -> With(SkipWs(s, i + 1), LAMBDA j :
                          IF Ch(s, j) = "}" THEN Parsed(PyDict(<<>>), j + 1)
                          ELSE ParseMembers(s, j, <<>>))
          [] c = "[" -> With(SkipWs(s, i + 1), LAMBDA j :
                          IF Ch(s, j) = "]" THEN Parsed(PyList(<<>>), j + 1)
                          ELSE ParseElems(s, j, <<>>))
          [] c = "-" \/ IsDigit(c) -> ParseNumber(s, i)
          [] c = "t" -> IF SubSeq(s, i, Min(Len(s), i + 3)) = "true"
                        THEN Parsed(PyBool(TRUE), i + 4) ELSE ParseFail
          [] c = "f" -> IF SubSeq(s, i, Min(Len(s), i + 4)) = "false"
                        THEN Parsed(PyBool(FALSE), i + 5) ELSE ParseFail
          [] c = "n" -> IF SubSeq(s, i, Min(Len(s), i + 3)) = "null"
                        THEN Parsed(PyNone, i + 4) ELSE ParseFail
          [] OTHER -> ParseFail))

\* the array element that starts at i: [ok, v, j], j being the index of the
\* first character after it that is not whitespace
ElemAt(s, i) ==
    With(ParseValue(s, i), LAMBDA r : [ok |-> r.ok, v |-> r.v, j |-> SkipWs(s, r.n)])

\* the elements of an array from i on, acc being those read so far
ParseElems(s, i, acc) ==
    With(ElemAt(s, i), LAMBDA e :
      IF ~e.ok THEN ParseFail
      ELSE IF Ch(s, e.j) = "," THEN ParseElems(s, e.j + 1, Append(acc, e.v))
      ELSE IF Ch(s, e.j) = "]" THEN Parsed(PyList(Append(acc, e.v)), e.j + 1)
      ELSE ParseFail)

\* the "key": value member of an object that starts at i0, after whitespace:
\* [ok, k, v, j], j being the index of the first character after it that is
\* not whitespace
MemberAt(s, i0) ==
    With(SkipWs(s, i0), LAMBDA i :
      With(IF Ch(s, i) = "\"" THEN ParseString(s, i) ELSE ParseFail, LAMBDA k :
        With(SkipWs(s, k.n), LAMBDA c :
          With(IF k.ok /\ Ch(s, c) = ":" THEN ParseValue(s, c + 1) ELSE ParseFail, LAMBDA r :
            [ok |-> r.ok, k |-> k.v.v, v |-> r.v, j |-> SkipWs(s, r.n)]))))

\* the members of an object from i on, acc being those read so far
ParseMembers(s, i, acc) ==
    With(MemberAt(s, i), LAMBDA m :
      IF ~m.ok THEN ParseFail
      ELSE IF Ch(s, m.j) = "," THEN ParseMembers(s, m.j + 1, DictSet(acc, m.k, m.v))
      ELSE IF Ch(s, m.j) = "}" THEN Parsed(PyDict(DictSet(acc, m.k, m.v)), m.j + 1)
      ELSE ParseFail)

\* json.loads(s): [ok, v]; ok is FALSE where json.loads raises
json_loads(s0) ==
    With(s0, LAMBDA s : With(ParseValue(s, 1), LAMBDA r :
      IF r.ok /\ SkipWs(s, r.n) = Len(s) + 1 THEN [ok |-> TRUE, v |-> r.v]
      ELSE [ok |-> FALSE, v |-> PyNone]))

-----------------------------------------------------------------------------
(* utils/llm.py: the client factory.                                       *)

\* The keyword parameters get_llm accepts.
GetLlmParams == {"model_name", "provider", "temperature"}

\* get_llm(**kwargs) under environment e.  A keyword get_llm does not declare
\* is a TypeError at the call; the body raises RuntimeError when no provider
\* can be used or the client's constructor fails.
get_llm(kwargs, e) ==
    IF ~(kwargs \subseteq GetLlmParams) THEN [raises |-> TRUE, exc |-> "TypeError", client |-> ""]
    ELSE
      LET provider_env == IF e.provider /= "" THEN e.provider
                          ELSE IF e.groq_key THEN "groq"
                          ELSE IF e.openai_key THEN "openai"
                          ELSE ""
          fail == [raises |-> TRUE, exc |-> "RuntimeError", client |-> ""]
      IN  IF provider_env = "groq"
          THEN IF ~e.groq_key \/ ~e.ChatGroq \/ ~e.ctor_ok THEN fail
               ELSE [raises |-> FALSE, exc |-> "", client |-> "groq"]
          ELSE IF provider_env = "openai" \/ provider_env = ""
          THEN IF ~e.openai_key \/ ~e.ChatOpenAI \/ ~e.ctor_ok THEN fail
               ELSE [raises |-> FALSE, exc |-> "", client |-> "openai"]
          ELSE fail

\* One llm.invoke call as the caller sees it: it raises (network error,
\* timeout), or it answers with a text.
Raised == [raises |-> TRUE, content |-> ""]
Answer(s) == [raises |-> FALSE, content |-> s]

\* @lru_cache(maxsize=4) around get_llm: the result of a call is kept under
\* the arguments of the call, for the four most recently used argument lists.
maxsize == 4

\* The argument lists get_llm is called with: get_llm() and
\* get_llm(model_name=m) for four model names.
Configs == {
    [model_name |-> "",   kwargs |-> {}],
    [model_name |-> "m1", kwargs |-> {"model_name"}],
    [model_name |-> "m2", kwargs |-> {"model_name"}],
    [model_name |-> "m3", kwargs |-> {"model_name"}],
    [model_name |-> "m4", kwargs |-> {"model_name"}] }

\* The cache is the sequence of its entries [key, client] from the least to
\* the most recently used.
CacheHas(c, key) == \E i \in 1..Len(c) : c[i].key = key

CacheGet(c, key) == c[CHOOSE i \in 1..Len(c) : c[i].key = key].client

\* a hit makes the entry the most recently used
CacheTouch(c, key) ==
    LET i == CHOOSE k \in 1..Len(c) : c[k].key = key
    IN  SubSeq(c, 1, i - 1) \o SubSeq(c, i + 1, Len(c)) \o <<c[i]>>

\* a store that replaces the entry another caller added during the call
CacheStore_Overwrites(c, key, client) ==
    IF CacheHas(c, key)
    THEN [i \in 1..Len(c) |-> IF c[i].key = key THEN [key |-> key, client |-> client] ELSE c[i]]
    ELSE IF Len(c) >= maxsize THEN Append(Tail(c), [key |-> key, client |-> client])
    ELSE Append(c, [key |-> key, client |-> client])

\* What the wrapper does with the result of a call that missed: when the key
\* was added during the call the cache is left alone; a full cache drops its
\* least recently used entry.
CacheStore(c, key, client) ==
    IF CacheHas(c, key) THEN c
    ELSE IF Len(c) >= maxsize THEN Append(Tail(c), [key |-> key, client |-> client])
    ELSE Append(c, [key |-> key, client |-> client])

-----------------------------------------------------------------------------
(* utils/relevance.py                                                      *)

UPSC_KEYWORDS_high == <<
    "supreme court", "high court", "constitution", "article", "bill", "act", "ordinance",
    "parliament", "lok sabha", "rajya sabha", "governor", "president", "election commission",
    "rbi", "budget", "gdp", "inflation", "fiscal deficit", "monetary policy", "repo rate",
    "niti aayog", "gst", "sebi", "disinvestment", "PLI scheme", "jan dhan", "ayushman bharat",
    "unsc", "g20", "fta", "bilateral", "indian ocean", "quad", "indo-pacific", "border",
    "environment", "climate", "cop", "wildlife", "biodiversity", "pollution", "cyclone", "flood", "forest",
    "isro", "drdo", "satellite", "quantum", "ai", "semiconductor", "nuclear", "missile", "cybersecurity",
    "scheme", "policy", "mission", "yojana", "commission", "committee", "tribunal" >>

UPSC_KEYWORDS_medium == <<
    "state government", "cabinet", "ministry", "notification", "regulation", "draft", "consultation", "startup",
    "export", "import", "trade", "pmi", "index", "rating", "manufacturing", "services", "fdi", "make in india" >>

UPSC_KEYWORDS_low == <<
    "celebrity", "movie", "cricket", "football", "stock tips", "viral", "gossip", "award show", "rumour" >>

\* _keyword_fallback_score(text) if the penalty were not capped at 3
_keyword_fallback_score_FullPenalty(text) ==
    IF text = "" THEN 0
    ELSE With(Lower(text), LAMBDA t :
           LET hi == CountIn(UPSC_KEYWORDS_high, t)
               med == CountIn(UPSC_KEYWORDS_medium, t)
               lo == CountIn(UPSC_KEYWORDS_low, t)
               base == Min(10, hi * 2 + med)
           IN  With(base - lo, LAMBDA score : Max(0, Min(10, score))))

_keyword_fallback_score(text) ==
    IF text = "" THEN 0
    ELSE With(Lower(text), LAMBDA t :
           LET hi == CountIn(UPSC_KEYWORDS_high, t)
               med == CountIn(UPSC_KEYWORDS_medium, t)
               lo == CountIn(UPSC_KEYWORDS_low, t)
               base == Min(10, hi * 2 + med)
               penalty == Min(3, lo)
           IN  With(base - penalty, LAMBDA score : Max(0, Min(10, score))))

\* _parse_score without the clamp of its last line: a fault C10 is tested against
_parse_score_unclamped(text0) ==
    With(text0, LAMBDA text : With(FirstIn(text, 1, DigitSet), LAMBDA i :
      IF i > Len(text) THEN 0
      ELSE IF IsDigit(Ch(text, i + 1))
      THEN 10 * DigitVal[Ch(text, i)] + DigitVal[Ch(text, i + 1)]
      ELSE DigitVal[Ch(text, i)]))

\* re.search(r"(\d{1,2})", text): the first digit and, when a digit follows
\* it, that digit too; clamped to 0..10.  No digit: 0.
_parse_score(text0) ==
    With(text0, LAMBDA text : With(FirstIn(text, 1, DigitSet), LAMBDA i :
      IF i > Len(text) THEN 0
      ELSE With(IF IsDigit(Ch(text, i + 1))
                THEN 10 * DigitVal[Ch(text, i)] + DigitVal[Ch(text, i + 1)]
                ELSE DigitVal[Ch(text, i)], LAMBDA val :
             Max(0, Min(10, val)))))

\* score_relevance(text, mode): llm is get_llm()'s outcome, call the outcome
\* of llm.invoke(prompt).  Everything from get_llm() on is inside the try.
score_relevance(text, llm, call) ==
    IF llm.raises \/ call.raises THEN _keyword_fallback_score(text)
    ELSE With(_parse_score(call.content), LAMBDA ai_score :
           IF ai_score = 0 THEN _keyword_fallback_score(text) ELSE ai_score)

-----------------------------------------------------------------------------
(* Regular expressions of the source, each as the scan it performs.        *)

\* \w
IsWord(c) == IsAlnum(c) \/ c = "_"

\* \b before the character at index i (1-based; i = Len(s) + 1 is the end)
WordBoundary(s, i) ==
    LET before == i > 1 /\ IsWord(Ch(s, i - 1))
        after == i <= Len(s) /\ IsWord(Ch(s, i))
    IN  before /= after

\* the index after the whitespace run that starts at i (i itself when there is none)
SkipSpace(s, i) == FirstNotIn(s, i, SpaceSet)

\* the index after the run of lower-case letters that starts at i
SkipLower(s, i) == FirstNotIn(s, i, LowerSet)

\* whether the n characters from i on are all digits
DigitsAt(s, i, n) == \A k \in i..(i + n - 1) : IsDigit(Ch(s, k))

MonthsAbbr == {"Jan", "Feb", "Mar", "Apr", "May", "Jun", "Jul", "Aug", "Sep", "Oct", "Nov", "Dec"}
MonthsFull == {"January", "February", "March", "April", "May", "June", "July", "August",
               "September", "October", "November", "December"}

\* \d{4}\b at i: the index after the match, or 0
YearEnd(s, i) == IF DigitsAt(s, i, 4) /\ WordBoundary(s, i + 4) THEN i + 4 ELSE 0

\* \d{1,2}\s+ at i: the index after the whitespace, or 0.  The digits are
\* followed by whitespace, so only the whole digit run can match.
DaySpaceEnd(s, i) ==
    With(SkipDigits(s, i), LAMBDA d :
      With(SkipSpace(s, d), LAMBDA w :
        IF d - i \in 1..2 /\ w > d THEN w ELSE 0))

\* The date patterns of _extract_dates and _fallback_dates: the index after
\* a match that starts at i, or 0 when none starts there.
\*   "iso"    \b(?:\d{4}-\d{2}-\d{2})\b
\*   "abbr"   \b(?:\d{1,2}\s+(?:Jan|...|Dec)[a-z]*\s+\d{4})\b
\*   "full"   \b(?:\d{1,2}\s+(?:January|...|December)\s+\d{4})\b
\*   "slash"  \b(?:\d{1,2}/\d{1,2}/\d{2,4})\b
DateMatchEnd(pat, s, i) ==
    IF ~IsDigit(Ch(s, i)) \/ ~WordBoundary(s, i) THEN 0
    ELSE CASE pat = "iso" ->
                IF DigitsAt(s, i, 4) /\ Ch(s, i + 4) = "-" /\ DigitsAt(s, i + 5, 2)
                   /\ Ch(s, i + 7) = "-" /\ DigitsAt(s, i + 8, 2) /\ WordBoundary(s, i + 10)
                THEN i + 10 ELSE 0
           [] pat = "abbr" ->
                With(DaySpaceEnd(s, i), LAMBDA m :
                  IF m = 0 \/ SubSeq(s, m, Min(Len(s), m + 2)) \notin MonthsAbbr THEN 0
                  ELSE With(SkipLower(s, m + 3), LAMBDA l :
                         With(SkipSpace(s, l), LAMBDA y :
                           IF y > l THEN YearEnd(s, y) ELSE 0)))
           [] pat = "full" ->
                With(DaySpaceEnd(s, i), LAMBDA m :
                  With({n \in MonthsFull : m > 0 /\ SubSeq(s, m, Min(Len(s), m + Len(n) - 1)) = n
                                           /\ SkipSpace(s, m + Len(n)) > m + Len(n)}, LAMBDA names :
                    IF names = {} THEN 0
                    ELSE YearEnd(s, SkipSpace(s, m + Len(CHOOSE x \in names : TRUE)))))
           [] pat = "slash" ->
                With(SkipDigits(s, i), LAMBDA a :
                  IF a - i \notin 1..2 \/ Ch(s, a) /= "/" THEN 0
                  ELSE With(SkipDigits(s, a + 1), LAMBDA b :
                         IF b - (a + 1) \notin 1..2 \/ Ch(s, b) /= "/" THEN 0
                         ELSE With(SkipDigits(s, b + 1), LAMBDA c :
                                IF c - (b + 1) \in 2..4 /\ WordBoundary(s, c) THEN c ELSE 0)))

\* re.findall(pattern, s) from index i on: the matches from left to right,
\* none overlapping
RECURSIVE FindDatesFrom(_, _, _)
FindDatesFrom(pat, s, i) ==
    With({j \in i..Len(s) : DateMatchEnd(pat, s, j) > 0}, LAMBDA starts :
      IF starts = {} THEN <<>>
      ELSE With(CHOOSE x \in starts : \A y \in starts : x <= y, LAMBDA j :
             With(DateMatchEnd(pat, s, j), LAMBDA e :
               <<SubSeq(s, j, e - 1)>> \o FindDatesFrom(pat, s, e))))

\* re.findall(pattern, s)
FindDates(pat, s0) == With(s0, LAMBDA s : FindDatesFrom(pat, s, 1))

\* a list without its repeats, first occurrences kept in order
RECURSIVE SelectIndices(_, _, _)
SelectIndices(l, keep, i) ==
    IF i > Len(l) THEN <<>>
    ELSE (IF i \in keep THEN <<l[i]>> ELSE <<>>) \o SelectIndices(l, keep, i + 1)

DedupeKeepOrder(l0) ==
    With(l0, LAMBDA l :
      With({i \in 1..Len(l) : \A k \in 1..(i - 1) : l[k] /= l[i]}, LAMBDA keep :
        SelectIndices(l, keep, 1)))

\* s.split(sep) for a one-character sep
RECURSIVE SplitFrom(_, _, _)
SplitFrom(s, sep, i) ==
    With(FirstIn(s, i, {sep}), LAMBDA j :
      IF j > Len(s) THEN <<SubSeq(s, i, Len(s))>>
      ELSE <<SubSeq(s, i, j - 1)>> \o SplitFrom(s, sep, j + 1))

Split(s0, sep) == With(s0, LAMBDA s : SplitFrom(s, sep, 1))

-----------------------------------------------------------------------------
(* utils/categorizer.py                                                    *)

ALLOWED_CATEGORIES == {"polity", "economy", "international", "environment", "science_tech",
                       "social", "security", "geography", "governance", "general"}

\* re.sub(r",(\s*[}\]])", r"\1", chunk): a comma is dropped when only
\* whitespace separates it from a closing brace or bracket
DropTrailingCommas(s0) ==
    With(s0, LAMBDA s :
      Concat([i \in 1..Len(s) |->
                IF Ch(s, i) = "," /\ Ch(s, SkipWs(s, i + 1)) \in {"}", "]"} THEN "" ELSE Ch(s, i)]))

\* s.find(c) and s.rfind(c) for a character c, 0-based, -1 when absent
Find(s0, c) ==
    With(s0, LAMBDA s : With(FirstIn(s, 1, {c}), LAMBDA i : IF i > Len(s) THEN -1 ELSE i - 1))
RFind(s0, c) == With(s0, LAMBDA s : LastNotIn(s, {Ch(s, i) : i \in 1..Len(s)} \ {c}) - 1)

\* _safe_json_extract(s) for a string s: the value the first successful
\* json.loads gives, whatever its type, and {} when none succeeds.
_safe_json_extract(s0) ==
    With(s0, LAMBDA s : With(json_loads(s), LAMBDA direct :
      IF direct.ok THEN direct.v
      ELSE With(Find(s, "{"), LAMBDA start : With(RFind(s, "}"), LAMBDA end :
             IF start /= -1 /\ end /= -1 /\ end > start
             THEN With(SubSeq(s, start + 1, end + 1), LAMBDA chunk :
                    With(json_loads(chunk), LAMBDA second :
                      IF second.ok THEN second.v
                      ELSE With(json_loads(DropTrailingCommas(chunk)), LAMBDA third :
                             IF third.ok THEN third.v ELSE PyDict(<<>>))))
             ELSE PyDict(<<>>)))))

\* s.strip().strip("•- ").strip()
CleanBullet(s) == Strip(StripSet(Strip(s), {"@", "-", " "}))

\* the elements of a sequence of <<keep, element>> pairs whose keep is TRUE
RECURSIVE Kept(_, _)
Kept(pairs, i) ==
    IF i > Len(pairs) THEN <<>>
    ELSE (IF pairs[i][1] THEN <<pairs[i][2]>> ELSE <<>>) \o Kept(pairs, i + 1)

\* the cleaned strings of a list that are not empty and hold an alphanumeric
CleanEach(l0) ==
    With(l0, LAMBDA l :
      With([i \in 1..Len(l) |-> With(CleanBullet(l[i]), LAMBDA c : <<c /= "" /\ AnyAlnum(c), c>>)],
           LAMBDA pairs : Kept(pairs, 1)))

\* the str() of the elements of a list that are not None
StrEach(l0) ==
    With(l0, LAMBDA l :
      With([i \in 1..Len(l) |-> <<l[i].t /= "none", IF l[i].t = "none" THEN "" ELSE str(l[i])>>],
           LAMBDA pairs : Kept(pairs, 1)))

\* _ensure_list(value): a list of strings
_ensure_list(value0) ==
    With(value0, LAMBDA value :
      CASE value.t = "none" -> <<>>
        [] value.t = "list" -> CleanEach(StrEach(value.v))
        [] value.t = "str"  -> CleanEach(Split(value.v, "\n"))
        [] OTHER -> <<>>)

\* the label of the first rule one of whose keywords is in txt, else "general"
FirstRule(rules, txt0) ==
    With(txt0, LAMBDA txt :
      With({i \in 1..Len(rules) : CountIn(rules[i][2], txt) > 0}, LAMBDA hits :
        IF hits = {} THEN "general"
        ELSE rules[CHOOSE i \in hits : \A k \in hits : i <= k][1]))

NormalizeRules == <<
    <<"polity", <<"parliament", "constitution", "bill", "act", "lok sabha", "rajya sabha", "supreme court", "election">> >>,
    <<"economy", <<"gdp", "inflation", "rbi", "budget", "tax", "fiscal", "repo", "bank", "economy">> >>,
    <<"international", <<"foreign policy", "un", "g20", "fta", "diplomacy", "indo-pacific", "bilateral">> >>,
    <<"environment", <<"climate", "wildlife", "pollution", "biodiversity", "cyclone", "emission", "conservation">> >>,
    <<"science_tech", <<"isro", "drdo", "ai", "quantum", "space", "research", "semiconductor", "technology", "launch">> >>,
    <<"social", <<"health", "education", "welfare", "poverty", "tribal", "social justice", "women", "child">> >>,
    <<"security", <<"defence", "terrorism", "border", "army", "navy", "air force", "internal security">> >>,
    <<"geography", <<"earthquake", "flood", "drought", "monsoon", "river", "mountain", "lithosphere">> >>,
    <<"governance", <<"niti aayog", "e-governance", "digital public infrastructure", "regulator", "sebi", "policy implementation">> >> >>

\* s.replace(" ", "_")
SpacesToUnderscores(s0) == With(s0, LAMBDA s : Concat([i \in 1..Len(s) |-> IF Ch(s, i) = " " THEN "_" ELSE Ch(s, i)]))

\* _normalize_category(cat, text_ctx) if the keyword rules came before the label
_normalize_category_RulesFirst(cat0, text_ctx) ==
    With(cat0, LAMBDA cat :
      With(IF cat.t = "str" THEN SpacesToUnderscores(Lower(Strip(cat.v))) ELSE "", LAMBDA c :
        With(FirstRule(NormalizeRules, Lower(text_ctx)), LAMBDA label :
          IF label /= "general" THEN label
          ELSE IF Truthy(cat) /\ c \in ALLOWED_CATEGORIES THEN c
          ELSE "general")))

\* _normalize_category(cat, text_ctx) for cat a string or None
_normalize_category(cat0, text_ctx) ==
    With(cat0, LAMBDA cat :
      With(IF cat.t = "str" THEN SpacesToUnderscores(Lower(Strip(cat.v))) ELSE "", LAMBDA c :
        IF Truthy(cat) /\ c \in ALLOWED_CATEGORIES THEN c
        ELSE FirstRule(NormalizeRules, Lower(text_ctx))))

_extract_dates(text0) ==
    With(text0, LAMBDA text :
    IF text = "" THEN <<>>
    ELSE DedupeKeepOrder(FindDates("abbr", text) \o FindDates("iso", text)
                             \o FindDates("slash", text) \o FindDates("full", text)))

_truncate(s0, max_len) ==
    With(s0, LAMBDA s :
      IF s = "" THEN ""
      ELSE IF Len(s) <= max_len THEN s
      ELSE Prefix(s, max_len - 3) \o "...")

DEEP_PROMPT ==
    "You are an expert UPSC mentor. Given the news item below, produce STRICT JSON only.\n"
    \o "\n"
    \o "JSON SHAPE:\n"
    \o "{\n"
    \o "  \"title\": \"short, 8-14 words headline for UPSC use\",\n"
    \o "  \"summary_en\": \"5-7 line crisp UPSC-focused summary in English\",\n"
    \o "  \"prelims_points\": [\"3-6 factual bullets for MCQs\"],\n"
    \o "  \"mains_angles\": [\"2-4 issue-analysis bullets for GS mains\"],\n"
    \o "  \"interview_questions\": [\"2-3 viva-style questions\"],\n"
    \o "  \"schemes_acts_policies\": [\"Union/State schemes, Acts, Policies, Rules\"],\n"
    \o "  \"institutions\": [\"Courts, regulators, commissions, ministries, intl bodies\"],\n"
    \o "  \"dates\": [\"important dates found in text, ISO or human\"],\n"
    \o "  \"category\": \"one of: polity, economy, international, environment, science_tech, social, security, geography, governance, general\"\n"
    \o "}\n"
    \o "\n"
    \o "STRICT RULES:\n"
    \o "- Output ONLY valid JSON. No markdown, no commentary.\n"
    \o "- Use arrays as arrays. If none, use [].\n"
    \o "- Category must be exactly one of the allowed values (lower_snake).\n"
    \o "- Keep neutral tone, exam-ready.\n"
    \o "- Prefer India/UPSC relevance.\n"
    \o "\n"
    \o "NEWS:\n"
    \o "Title: {title}\n"
    \o "Description: {description}\n"
    \o "Content: {content}\n"
    \o "URL: {url}\n"
    \o "Source: {source}\n"

FAST_PROMPT ==
    "UPSC quick triage. Return STRICT JSON only with:\n"
    \o "{\n"
    \o "  \"title\": \"short headline\",\n"
    \o "  \"summary_en\": \"2-3 lines\",\n"
    \o "  \"prelims_points\": [\"1-3 bullets\"],\n"
    \o "  \"mains_angles\": [\"1-2 bullets\"],\n"
    \o "  \"interview_questions\": [],\n"
    \o "  \"schemes_acts_policies\": [],\n"
    \o "  \"institutions\": [],\n"
    \o "  \"dates\": [],\n"
    \o "  \"category\": \"polity|economy|international|environment|science_tech|social|security|geography|governance|general\"\n"
    \o "}\n"
    \o "\n"
    \o "STRICT: JSON only, arrays as arrays, category in allowed set.\n"
    \o "\n"
    \o "NEWS:\n"
    \o "Title: {title}\n"
    \o "Description: {description}\n"
    \o "Content: {content}\n"
    \o "URL: {url}\n"
    \o "Source: {source}\n"


\* template.format(**kwargs): "" when it succeeds, else the exception.  A
\* replacement field is "{" name "}", or with a conversion or a format spec
\* "{" name ("!" | ":") ... "}"; "{{" and "}}" are literal braces.  A brace
\* without its partner is a ValueError, a name that is no keyword argument a
\* KeyError; conversions and format specs themselves are taken as valid.
RECURSIVE FormatErrorFrom(_, _, _)
FormatErrorFrom(t, i, names) ==
    With(FirstIn(t, i, {"{", "}"}), LAMBDA b :
      IF b > Len(t) THEN ""
      ELSE IF Ch(t, b + 1) = Ch(t, b) THEN FormatErrorFrom(t, b + 2, names)
      ELSE IF Ch(t, b) = "}" THEN "ValueError"
      ELSE With(FirstIn(t, b + 1, {"}"}), LAMBDA close :
             IF close > Len(t) THEN "ValueError"
             ELSE IF SubSeq(t, b + 1, FirstIn(t, b + 1, {"}", ":", "!"}) - 1) \notin names
             THEN "KeyError"
             ELSE FormatErrorFrom(t, close + 1, names)))

FormatError(t0, names) == With(t0, LAMBDA t : FormatErrorFrom(t, 1, names))

\* The nine keys of auto_categorize's result, with the values of an article
\* about which the transformer said nothing.
NoMeta == [summary_en |-> "", summary_hi |-> "", prelims_points |-> <<>>, mains_angles |-> <<>>,
           interview_questions |-> <<>>, schemes_acts_policies |-> <<>>, institutions |-> <<>>,
           dates |-> <<>>, category |-> ""]

\* what auto_categorize returns once the response is parsed into the dict data
StructuredNote(title, description, content, data) ==
    LET get(k) == DictGet(data.v, k, PyNone)
        t == _truncate(title, 400)
        d == _truncate(description, 1200)
        c == _truncate(content, 4000)
        fallback_summary ==
            IF t /= "" THEN t ELSE IF d /= "" THEN d
            ELSE IF Prefix(c, 300) /= "" THEN Prefix(c, 300)
            ELSE "Current affairs brief with UPSC relevance."
        summary == DictGet(data.v, "summary_en", PyStr(""))
    IN  With(Join(" ", <<title, description, content>>), LAMBDA text_ctx :
          With(<<_ensure_list(get("prelims_points")), _ensure_list(get("mains_angles")),
                 _ensure_list(get("dates")), Lower(text_ctx)>>, LAMBDA p :
            [summary_en |-> IF Truthy(summary) THEN str(summary) ELSE fallback_summary,
             summary_hi |-> "",
             prelims_points |->
                 IF p[1] = <<>> /\ (title /= "" \/ description /= "")
                 THEN Prefix((IF title /= "" THEN <<"Headline: " \o title>> ELSE <<>>)
                             \o (IF Contains(p[4], "rbi") THEN <<"RBI-related update">> ELSE <<>>)
                             \o (IF Contains(p[4], "supreme court")
                                 THEN <<"Supreme Court judgement/update">> ELSE <<>>), 3)
                 ELSE p[1],
             mains_angles |->
                 IF p[2] = <<>> /\ (description /= "" \/ content /= "")
                 THEN <<"Explain its implications for governance and public policy.",
                        "Discuss potential impact on economy and society.">>
                 ELSE p[2],
             interview_questions |-> _ensure_list(get("interview_questions")),
             schemes_acts_policies |-> _ensure_list(get("schemes_acts_policies")),
             institutions |-> _ensure_list(get("institutions")),
             dates |-> IF p[3] = <<>> THEN _extract_dates(text_ctx) ELSE p[3],
             category |-> _normalize_category(get("category"), text_ctx)]))

\* auto_categorize(article, llm, mode): call is the outcome of llm.invoke.
\* [raised, exc, out]: out is the returned dict when raised is FALSE.
auto_categorize(article0, call, mode) ==
    With(article0, LAMBDA article :
      LET prompt == IF Lower(IF mode = "" THEN "deep" ELSE mode) = "deep" THEN DEEP_PROMPT ELSE FAST_PROMPT
          fail(e) == [raised |-> TRUE, exc |-> e, out |-> NoMeta]
      IN  IF Truthy(article.source) /\ article.source.t /= "str" THEN fail("AttributeError")
          ELSE With(FormatError(prompt, {"title", "description", "content", "url", "source"}), LAMBDA fmt :
            IF fmt /= "" THEN fail(fmt)
            ELSE With(_safe_json_extract(IF call.raises THEN "" ELSE call.content), LAMBDA data :
              IF data.t /= "dict" THEN fail("AttributeError")
              ELSE With(DictGet(data.v, "category", PyNone), LAMBDA cat :
                IF Truthy(cat) /\ cat.t /= "str" THEN fail("AttributeError")
                ELSE [raised |-> FALSE, exc |-> "",
                      out |-> With(<<Strip(article.title), Strip(article.description),
                                     Strip(article.content)>>, LAMBDA a :
                                 StructuredNote(a[1], a[2], a[3], data))]))))

-----------------------------------------------------------------------------
(* api/routes/news.py                                                      *)

\* list.sort(key=..., reverse=True) on a list of <<key, item>> pairs: by key,
\* largest first; pairs with equal keys keep the order they had.
SortDesc(pairs0) ==
    With(pairs0, LAMBDA pairs :
      LET before(i, k) == pairs[i][1] > pairs[k][1] \/ (pairs[i][1] = pairs[k][1] /\ i < k)
          rank(i) == 1 + Cardinality({k \in 1..Len(pairs) : before(k, i)})
      IN  [r \in 1..Len(pairs) |-> pairs[CHOOSE i \in 1..Len(pairs) : rank(i) = r]])

\* the route's own copy of _ensure_list
news_ensure_list(value0) ==
    With(value0, LAMBDA value :
      CASE value.t = "none" -> <<>>
        [] value.t = "list" -> CleanEach(StrEach(value.v))
        [] value.t = "str"  -> CleanEach(Split(value.v, "\n"))
        [] OTHER -> <<>>)

_str(x) == IF x.t = "none" THEN "" ELSE str(x)

HeuristicRules == <<
    <<"polity", <<"parliament", "constitution", "bill", "act", "lok sabha", "rajya sabha", "supreme court", "election">> >>,
    <<"economy", <<"gdp", "inflation", "rbi", "budget", "tax", "fiscal", "repo", "bank", "economy">> >>,
    <<"international", <<"foreign policy", "un ", " g20", "fta", "diplomacy", "indo-pacific", "bilateral", "pakistan", "china">> >>,
    <<"environment", <<"climate", "wildlife", "pollution", "biodiversity", "cyclone", "emission", "forest", "conservation">> >>,
    <<"science_tech", <<"isro", "drdo", "ai", "quantum", "space", "research", "semiconductor", "technology", "launch">> >>,
    <<"social", <<"health", "education", "welfare", "poverty", "tribal", "social justice", "women", "child", "nrega">> >>,
    <<"security", <<"defence", "terrorism", "border", "army", "navy", "air force", "internal security">> >>,
    <<"geography", <<"earthquake", "flood", "drought", "monsoon", "river", "mountain">> >>,
    <<"governance", <<"niti aayog", "e-governance", "digital public infrastructure", "sebi", "regulator", "implementation">> >> >>

_heuristic_category(text) == FirstRule(HeuristicRules, Lower(text))

\* _fallback_points(title, desc, content) if the headline came after the cues
_fallback_points_HeadlineLast(title, desc, content) ==
    With(Lower(Join(" ", <<title, desc, content>>)), LAMBDA ctx :
        [prelims_points |-> Prefix(
            (IF Contains(ctx, "rbi") THEN <<"RBI-related update">> ELSE <<>>)
            \o (IF Contains(ctx, "supreme court") THEN <<"Supreme Court judgement/update">> ELSE <<>>)
            \o (IF Contains(ctx, "bill") \/ Contains(ctx, "act")
                THEN <<"Legislative development (Bill/Act)">> ELSE <<>>)
            \o (IF title /= "" THEN <<"Headline: " \o title>> ELSE <<>>), 4),
         mains_angles |-> <<"Explain implications for governance/public policy.",
                            "Discuss potential impact on economy and society.">>])

_fallback_points(title, desc, content) ==
    With(Lower(Join(" ", <<title, desc, content>>)), LAMBDA ctx :
        [prelims_points |-> Prefix(
            (IF title /= "" THEN <<"Headline: " \o title>> ELSE <<>>)
            \o (IF Contains(ctx, "rbi") THEN <<"RBI-related update">> ELSE <<>>)
            \o (IF Contains(ctx, "supreme court") THEN <<"Supreme Court judgement/update">> ELSE <<>>)
            \o (IF Contains(ctx, "bill") \/ Contains(ctx, "act")
                THEN <<"Legislative development (Bill/Act)">> ELSE <<>>), 4),
         mains_angles |-> <<"Explain implications for governance/public policy.",
                            "Discuss potential impact on economy and society.">>])

_fallback_dates(text0) ==
    With(text0, LAMBDA text : DedupeKeepOrder(FindDates("iso", text) \o FindDates("abbr", text)
                        \o FindDates("full", text) \o FindDates("slash", text)))

KeywordRelevanceKeys == <<
    "india", "government", "policy", "scheme", "supreme court", "rbi", "budget", "parliament",
    "isro", "environment", "act", "bill", "election", "gdp", "inflation", "security", "governance" >>

_keyword_relevance(text) ==
    With(CountIn(KeywordRelevanceKeys, Lower(text)), LAMBDA hits :
      Max(1, Min(10, 3 + Min(7, hits))))

RECURSIVE _get_source_name(_)
_get_source_name(source_obj0) ==
    With(source_obj0, LAMBDA source_obj :
      CASE source_obj.t = "none" -> ""
        [] source_obj.t = "dict" ->
              With(<<DictGet(source_obj.v, "name", PyNone), DictGet(source_obj.v, "id", PyNone)>>,
                   LAMBDA ni : str(IF Truthy(ni[1]) THEN ni[1] ELSE IF Truthy(ni[2]) THEN ni[2] ELSE PyStr("")))
        [] source_obj.t = "list" ->
              IF source_obj.v = <<>> THEN ""
              ELSE IF source_obj.v[1].t = "dict" THEN _get_source_name(source_obj.v[1])
              ELSE str(source_obj.v[1])
        [] OTHER -> str(source_obj))

\* a list of strings as the Python list it is
StrList(l) == PyList([i \in 1..Len(l) |-> PyStr(l[i])])

\* meta.get(key) for the dict auto_categorize returned, or for {} when it raised
MetaGet(ac, key) ==
    IF ac.raised THEN PyNone
    ELSE CASE key = "summary_en" -> PyStr(ac.out.summary_en)
           [] key = "category" -> PyStr(ac.out.category)
           [] key = "prelims_points" -> StrList(ac.out.prelims_points)
           [] key = "mains_angles" -> StrList(ac.out.mains_angles)
           [] key = "interview_questions" -> StrList(ac.out.interview_questions)
           [] key = "schemes_acts_policies" -> StrList(ac.out.schemes_acts_policies)
           [] key = "institutions" -> StrList(ac.out.institutions)
           [] key = "dates" -> StrList(ac.out.dates)

\* The IngestItem one pass of the loop of ingest_news builds from the
\* article art, the structurer's outcome ac and the scorer's result rel_score
\* for the text rel_text.
BuildItem(art, ac, summary_en, rel_text, rel_score) ==
    LET title == art.title
        desc == art.description
        content == art.content
    IN  With(<<news_ensure_list(MetaGet(ac, "prelims_points")),
               news_ensure_list(MetaGet(ac, "mains_angles")),
               news_ensure_list(MetaGet(ac, "dates")),
               _fallback_points(title, desc, content),
               Join(" ", <<title, desc, content>>),
               MetaGet(ac, "category")>>, LAMBDA m :
          [title |-> Prefix(title, 300),
           url |-> art.url,
           publishedAt |-> art.publishedAt,
           source |-> _get_source_name(art.source),
           category |-> IF Truthy(m[6]) THEN m[6].v ELSE _heuristic_category(m[5]),
           relevance |-> IF rel_score \in 1..10 THEN rel_score ELSE _keyword_relevance(rel_text),
           summary_en |-> summary_en,
           summary_hi |-> "",
           prelims_points |-> IF m[1] = <<>> THEN m[4].prelims_points ELSE m[1],
           mains_angles |-> IF m[2] = <<>> THEN m[4].mains_angles ELSE m[2],
           interview_questions |-> news_ensure_list(MetaGet(ac, "interview_questions")),
           schemes_acts_policies |-> news_ensure_list(MetaGet(ac, "schemes_acts_policies")),
           institutions |-> news_ensure_list(MetaGet(ac, "institutions")),
           dates |-> IF m[3] = <<>> THEN _fallback_dates(m[5]) ELSE m[3]])

\* One pass of the loop of ingest_news over an article.  catCall and relCall
\* are the outcomes of the structurer's and the scorer's llm.invoke; get_llm()
\* has succeeded before the loop and is cached.
IngestItem(art0, ai_mode, llm, catCall, relCall) ==
    With(art0, LAMBDA art :
      With(auto_categorize(art, catCall, IF ai_mode = "" THEN "deep" ELSE ai_mode), LAMBDA ac :
        With(_str(MetaGet(ac, "summary_en")), LAMBDA meta_summary :
          With(IF meta_summary /= "" THEN meta_summary
               ELSE IF art.title /= "" THEN art.title
               ELSE IF art.description /= "" THEN art.description
               ELSE IF Prefix(art.content, 300) /= "" THEN Prefix(art.content, 300)
               ELSE "Current affairs brief.", LAMBDA summary_en :
            With(art.title \o "\n" \o summary_en \o "\n" \o art.description \o "\n" \o art.content,
                 LAMBDA rel_text :
              With(score_relevance(rel_text, llm, relCall), LAMBDA rel_score :
                BuildItem(art, ac, summary_en, rel_text, rel_score)))))))

\* out.sort(key=relevance, reverse=True) and the cap out[:max(1, page_size)]
SortAndCap(out0, page_size) ==
    With(out0, LAMBDA out :
      With(SortDesc([i \in 1..Len(out) |-> <<out[i].relevance, out[i]>>]), LAMBDA sorted :
        With([i \in 1..Len(sorted) |-> sorted[i][2]], LAMBDA items :
          IF page_size /= 0 THEN Prefix(items, Max(1, page_size)) ELSE items)))

-----------------------------------------------------------------------------
(* utils/pdf_analyzer.py                                                   *)

UPSC_CATEGORIES == <<"polity", "economy", "international", "environment",
                     "science_tech", "social", "security", "geography">>

\* the code fence, three backquotes
Fence == "~~~"

_clean_json(s0) ==
    With(Strip(s0), LAMBDA s :
      IF StartsWith(s, Fence)
      THEN With(Strip(SubSeq(s, FirstNotIn(s, 4, LowerSet \cup UpperSet), Len(s))), LAMBDA u :
             IF EndsWith(u, Fence) THEN Strip(Prefix(u, Len(u) - 3)) ELSE u)
      ELSE s)

\* _parse_items(raw): the value of j.get("items", []), whatever its type;
\* [] when json.loads raises or j is no dict
_parse_items(raw) ==
    With(json_loads(_clean_json(raw)), LAMBDA j :
      IF j.ok /\ j.v.t = "dict" THEN DictGet(j.v.v, "items", PyList(<<>>)) ELSE PyList(<<>>))

\* list(items): what all_items.extend(items) appends.  Extending by a string
\* appends its characters, by a dict its keys; None, a number or a bool is a
\* TypeError.
Iterate(items0) ==
    With(items0, LAMBDA items :
      CASE items.t = "list" -> [raised |-> FALSE, exc |-> "", v |-> items.v]
        [] items.t = "str"  -> [raised |-> FALSE, exc |-> "",
                                v |-> [i \in 1..Len(items.v) |-> PyStr(Ch(items.v, i))]]
        [] items.t = "dict" -> [raised |-> FALSE, exc |-> "",
                                v |-> [i \in 1..Len(items.v) |-> PyStr(items.v[i][1])]]
        [] OTHER -> [raised |-> TRUE, exc |-> "TypeError", v |-> <<>>])

\* chunk_text(s, size, overlap), for size > 0
RECURSIVE ChunksFrom(_, _, _, _)
ChunksFrom(s, size, step, i) ==
    IF i >= Len(s) THEN <<>>
    ELSE <<SubSeq(s, i + 1, Min(Len(s), i + size))>> \o ChunksFrom(s, size, step, i + step)

\* chunk_text(s, size, overlap) if each window began where the last one ended
chunk_text_NoOverlap(s0, size, overlap) ==
    With(s0, LAMBDA s : ChunksFrom(s, size, Max(1, size), 0))

chunk_text(s0, size, overlap) ==
    With(s0, LAMBDA s : ChunksFrom(s, size, Max(1, size - overlap), 0))

\* One pass of the loop of analyze_pdf_text: call is the outcome of
\* llm.invoke for the chunk.  [raised, exc, all_items]: an exception of the
\* call or of extend leaves the function.
AnalyzeChunk(all_items, call) ==
    IF call.raises THEN [raised |-> TRUE, exc |-> "InvokeError", all_items |-> all_items]
    ELSE With(Iterate(_parse_items(call.content)), LAMBDA items :
           IF items.raised THEN [raised |-> TRUE, exc |-> items.exc, all_items |-> all_items]
           ELSE [raised |-> FALSE, exc |-> "", all_items |-> all_items \o items.v])

\* _norm_title without .lower(): a fault C5 is tested against
_norm_title_keeps_case(t) == Prefix(Strip(t), 120)

\* _norm_title(t) for a string t
_norm_title(t) == Prefix(Lower(Strip(t)), 120)

\* int(x): [raised, exc, v].  A float is cut towards zero; a string must be an
\* optional sign and digits, with whitespace around them allowed.
int(x0) ==
    With(x0, LAMBDA x :
      CASE x.t = "num"  -> [raised |-> FALSE, exc |-> "", v |-> IF x.v[1] THEN 0 - x.v[2] ELSE x.v[2]]
        [] x.t = "bool" -> [raised |-> FALSE, exc |-> "", v |-> IF x.v THEN 1 ELSE 0]
        [] x.t = "str"  ->
              With(Strip(x.v), LAMBDA s :
                With(IF Ch(s, 1) \in {"-", "+"} THEN SubSeq(s, 2, Len(s)) ELSE s, LAMBDA d :
                  IF d /= "" /\ \A i \in 1..Len(d) : IsDigit(Ch(d, i))
                  THEN [raised |-> FALSE, exc |-> "",
                        v |-> IF Ch(s, 1) = "-" THEN 0 - DigitsVal(d) ELSE DigitsVal(d)]
                  ELSE [raised |-> TRUE, exc |-> "ValueError", v |-> 0]))
        [] OTHER -> [raised |-> TRUE, exc |-> "TypeError", v |-> 0])

\* The dedupe loop of analyze_pdf_text: the key of item it, or the exception
\* that it.get("title", "") or _norm_title raises.
TitleKey(it0) ==
    With(it0, LAMBDA it :
      IF it.t /= "dict" THEN [raised |-> TRUE, exc |-> "AttributeError", key |-> ""]
      ELSE With(DictGet(it.v, "title", PyStr("")), LAMBDA t :
             IF ~Truthy(t) THEN [raised |-> FALSE, exc |-> "", key |-> ""]
             ELSE IF t.t /= "str" THEN [raised |-> TRUE, exc |-> "AttributeError", key |-> ""]
             ELSE [raised |-> FALSE, exc |-> "", key |-> _norm_title(t.v)]))

\* the dedupe loop if "if key and key not in seen" were "if key not in seen"
Dedupe_KeepsUntitled(all_items, keys) ==
    With({i \in 1..Len(all_items) : \A k \in 1..(i - 1) : keys[k].key /= keys[i].key}, LAMBDA keep :
      SelectIndices(all_items, keep, 1))

\* the items kept by the dedupe loop, given the key of each item
Dedupe(all_items, keys) ==
    With({i \in 1..Len(all_items) :
            keys[i].key /= "" /\ \A k \in 1..(i - 1) : keys[k].key /= keys[i].key}, LAMBDA keep :
      SelectIndices(all_items, keep, 1))

\* The group loop: the group of item it, or the TypeError of looking an
\* unhashable category up in the dict.
GroupOf(it) ==
    With(DictGet(it.v, "category", PyStr("general")), LAMBDA cat :
      IF cat.t \in {"list", "dict"} THEN [raised |-> TRUE, exc |-> "TypeError", cat |-> ""]
      ELSE IF cat.t = "str" /\ \E i \in 1..Len(UPSC_CATEGORIES) : UPSC_CATEGORIES[i] = cat.v
      THEN [raised |-> FALSE, exc |-> "", cat |-> cat.v]
      ELSE [raised |-> FALSE, exc |-> "", cat |-> "general"])

\* the first exception in a sequence of outcomes, "" when there is none
FirstExc(outcomes0) ==
    With(outcomes0, LAMBDA outcomes :
      With({i \in 1..Len(outcomes) : outcomes[i].raised}, LAMBDA bad :
        IF bad = {} THEN "" ELSE outcomes[CHOOSE i \in bad : \A k \in bad : i <= k].exc))

\* grouped[k].sort(key=lambda x: int(x.get("relevance", 0)), reverse=True):
\* [raised, exc, items]
SortGroup(items0) ==
    With(items0, LAMBDA items :
      With([i \in 1..Len(items) |-> int(DictGet(items[i].v, "relevance", PyInt(0)))], LAMBDA ks :
        With(FirstExc(ks), LAMBDA e :
          IF e /= "" THEN [raised |-> TRUE, exc |-> e, items |-> <<>>]
          ELSE With(SortDesc([i \in 1..Len(items) |-> <<ks[i].v, items[i]>>]), LAMBDA sorted :
                 [raised |-> FALSE, exc |-> "", items |-> [i \in 1..Len(sorted) |-> sorted[i][2]]]))))

\* analyze_pdf_text after its loop over the chunks: dedupe, group, sort.
\* [raised, exc, grouped]; grouped is the returned dict as a sequence of
\* <<category, items>> pairs in the dict's order.
Aggregate(all_items0) ==
    With(all_items0, LAMBDA all_items :
      With([i \in 1..Len(all_items) |-> TitleKey(all_items[i])], LAMBDA keys :
        IF FirstExc(keys) /= "" THEN [raised |-> TRUE, exc |-> FirstExc(keys), grouped |-> <<>>]
        ELSE With(Dedupe(all_items, keys), LAMBDA uniq :
          With([i \in 1..Len(uniq) |-> GroupOf(uniq[i])], LAMBDA cats :
            IF FirstExc(cats) /= "" THEN [raised |-> TRUE, exc |-> FirstExc(cats), grouped |-> <<>>]
            ELSE With(Append(UPSC_CATEGORIES, "general"), LAMBDA names :
              With([g \in 1..Len(names) |->
                      SortGroup(SelectIndices(uniq, {i \in 1..Len(uniq) : cats[i].cat = names[g]}, 1))],
                   LAMBDA sorted :
                IF FirstExc(sorted) /= "" THEN [raised |-> TRUE, exc |-> FirstExc(sorted), grouped |-> <<>>]
                ELSE [raised |-> FALSE, exc |-> "",
                      grouped |-> [g \in 1..Len(names) |-> <<names[g], sorted[g].items>>]]))))))

-----------------------------------------------------------------------------
(* utils/pdf_reader.py                                                     *)
(* A PDF is what the reader (fitz) makes of its bytes: whether the bytes   *)
(* are empty, whether fitz.open accepts them, and for each page the text   *)
(* of get_text("text"), the texts of the blocks of get_text("blocks") and  *)
(* the outcome an OCR of the page's image has.                             *)

MIN_SENT_LEN == 30
MAX_SENT_LEN == 800
DEFAULT_SECTION == "general"

SECTION_KEYWORDS == <<
    <<"polity", <<"parliament", "constitution", "supreme court", "high court", "cabinet",
                  "lok sabha", "rajya sabha", "governance", "policy", "bill", "act", "ordinance">> >>,
    <<"economy", <<"economy", "gdp", "reserve bank", "rbi", "inflation", "budget",
                   "fiscal", "monetary", "trade", "tariff", "exports", "imports", "economic">> >>,
    <<"international", <<"foreign", "treaty", "bilateral", "united nations", "us", "china", "diplomatic",
                         "sanction", "embargo", "international", "neighbour", "visakhapatnam", "google">> >>,
    <<"environment", <<"environment", "climate", "pollution", "biodiversity", "wildlife", "conservation",
                       "forest", "rainfall", "glacier", "sea level", "coastal", "emission">> >>,
    <<"science_tech", <<"space", "isro", "scientist", "research", "technology", "ai",
                        "artificial intelligence", "satellite", "experiment", "innovation", "robot",
                        "data centre">> >>,
    <<"social", <<"education", "health", "welfare", "poverty", "caste", "minority", "women", "child",
                  "nutrition", "social", "scheme">> >>,
    <<"security", <<"defence", "army", "navy", "air force", "terror", "naxal", "border",
                    "cyber security", "intelligence", "safety">> >>,
    <<"geography", <<"river", "mountain", "plateau", "delta", "coast", "soil", "agriculture", "monsoon",
                     "geography", "terrain">> >> >>

\* not text or text.strip() == ""
Blank(text) == Strip(text) = ""

\* ExtractPage with the OCR tried on every blank page, enable_ocr or not: a
\* fault C9 is tested against
ExtractPage_IgnoresSwitch(page, enable_ocr) ==
    With(IF Blank(page.text) THEN Join("\n", page.blocks) ELSE page.text, LAMBDA native :
      IF Blank(native)
      THEN [text |-> IF page.ocr.raises THEN native ELSE page.ocr.content, ocr |-> TRUE]
      ELSE [text |-> native, ocr |-> FALSE])

\* One pass of the loop of extract_pdf_text_bytes: [text, ocr], the text of
\* the page and whether the OCR was called for it.
ExtractPage(page, enable_ocr) ==
    With(IF Blank(page.text) THEN Join("\n", page.blocks) ELSE page.text, LAMBDA native :
      IF Blank(native) /\ enable_ocr
      THEN [text |-> IF page.ocr.raises THEN native ELSE page.ocr.content, ocr |-> TRUE]
      ELSE [text |-> native, ocr |-> FALSE])

\* extract_pdf_text_bytes(file_bytes, enable_ocr): [raised, exc, full, pages,
\* page_count, ocr_calls].  The exception of fitz.open leaves the function;
\* ocr_calls counts the calls of the OCR.
extract_pdf_text_bytes(file_bytes, enable_ocr) ==
    IF ~file_bytes.opens
    THEN [raised |-> TRUE, exc |-> IF file_bytes.empty THEN "EmptyFileError" ELSE "FileDataError",
          full |-> "", pages |-> <<>>, page_count |-> 0, ocr_calls |-> 0]
    ELSE With([pno \in 1..Len(file_bytes.pages) |-> ExtractPage(file_bytes.pages[pno], enable_ocr)],
              LAMBDA ps :
           With([pno \in 1..Len(ps) |-> ps[pno].text], LAMBDA pieces :
             [raised |-> FALSE, exc |-> "", full |-> Join("\n\n", pieces), pages |-> pieces,
              page_count |-> Len(ps), ocr_calls |-> Cardinality({pno \in 1..Len(ps) : ps[pno].ocr})]))

\* text.splitlines(), for a text whose line breaks are "\n"
splitlines(text) ==
    With(text, LAMBDA s :
      IF s = "" THEN <<>>
      ELSE With(Split(s, "\n"), LAMBDA p :
             IF p[Len(p)] = "" THEN SubSeq(p, 1, Len(p) - 1) ELSE p))

\* the concatenation of a sequence of sequences
RECURSIVE FlattenRange(_, _, _)
FlattenRange(ls, lo, hi) ==
    IF lo > hi THEN <<>>
    ELSE IF lo = hi THEN ls[lo]
    ELSE FlattenRange(ls, lo, (lo + hi) \div 2) \o FlattenRange(ls, (lo + hi) \div 2 + 1, hi)

Flatten(ls0) == With(ls0, LAMBDA ls : FlattenRange(ls, 1, Len(ls)))

\* the elements of l that pass keep, in order
Filter(l0, keep(_)) ==
    With(l0, LAMBDA l : Flatten([i \in 1..Len(l) |-> IF keep(l[i]) THEN <<l[i]>> ELSE <<>>]))

\* the characters [A-Za-z0-9\s:\-,'()\.] of the short-headline pattern
HeadlineChars == LowerSet \cup UpperSet \cup DigitSet \cup SpaceSet \cup {":", "-", ",", "'", "(", ")", "."}

\* re.match(r"^[A-Za-z0-9][A-Za-z0-9\s:\-,'()\.]{5,}$", s) for a stripped line s
LooksLikeHeadline(s) ==
    /\ Len(s) >= 6
    /\ IsAlnum(Ch(s, 1))
    /\ \A i \in 2..Len(s) : Ch(s, i) \in HeadlineChars

\* MULTI_WHITESPACE.sub(" ", s): every run of two or more whitespace
\* characters becomes one space
CollapseSpaces(s0) ==
    With(s0, LAMBDA s :
      Concat([i \in 1..Len(s) |->
                IF IsSpace(Ch(s, i)) /\ (IsSpace(Ch(s, i - 1)) \/ IsSpace(Ch(s, i + 1)))
                THEN (IF IsSpace(Ch(s, i - 1)) THEN "" ELSE " ")
                ELSE Ch(s, i)]))

\* the bullet (written "@"), the dash and the star
BulletSet == {"@", "-", "*"}

\* re.sub(r"^[...]+\s*", "", s): leading bullets and the whitespace after them
StripBullets(s0) ==
    With(s0, LAMBDA s :
      IF Ch(s, 1) \in BulletSet THEN LStripSet(LStripSet(s, BulletSet), SpaceSet) ELSE s)

\* whether clean_text keeps the stripped line s
KeepLine(s) ==
    /\ s /= ""
    /\ AnyAlnum(s)
    /\ Len(s) < MIN_SENT_LEN => LooksLikeHeadline(s)

clean_text(text) ==
    With(splitlines(text), LAMBDA lines :
      With([i \in 1..Len(lines) |-> Strip(lines[i])], LAMBDA stripped :
        With(Filter(stripped, KeepLine), LAMBDA kept :
          Join("\n", [i \in 1..Len(kept) |-> StripBullets(CollapseSpaces(kept[i]))]))))

\* re.split(pattern, s) for a pattern (?<=[behind])\s+ followed, when
\* lookahead is TRUE, by (?=[ahead]).  A match starts at a whitespace
\* character that follows a character of behind and runs to the end of the
\* whitespace; it needs a character of ahead after it.
SplitAtSpaces(s0, behind, lookahead, ahead) ==
    With(s0, LAMBDA s :
      With({p \in 2..Len(s) :
              /\ IsSpace(Ch(s, p))
              /\ Ch(s, p - 1) \in behind
              /\ lookahead => Ch(s, FirstNotIn(s, p, SpaceSet)) \in ahead}, LAMBDA cand :
        With({p \in cand : ~\E o \in cand : o < p /\ \A k \in o..p : IsSpace(Ch(s, k))}, LAMBDA starts :
          With([k \in 1..Cardinality(starts) |->
                  CHOOSE p \in starts : Cardinality({o \in starts : o < p}) = k - 1], LAMBDA st :
            [k \in 1..(Len(st) + 1) |->
               SubSeq(s, IF k = 1 THEN 1 ELSE FirstNotIn(s, st[k - 1], SpaceSet),
                         IF k > Len(st) THEN Len(s) ELSE st[k] - 1)]))))

\* what sentence_tokenize makes of one segment of its first split
SentencesOf(seg0) ==
    With(Strip(seg0), LAMBDA seg :
      IF seg = "" THEN <<>>
      ELSE IF Len(seg) > MAX_SENT_LEN
      THEN With(SplitAtSpaces(seg, {",", ";"}, FALSE, {}), LAMBDA parts :
             Filter([i \in 1..Len(parts) |-> Strip(parts[i])], LAMBDA p : p /= ""))
      ELSE <<seg>>)

sentence_tokenize(text) ==
    With(SplitAtSpaces(text, {".", "?", "\n", "!"}, TRUE, UpperSet \cup DigitSet), LAMBDA s :
      Flatten([i \in 1..Len(s) |-> SentencesOf(s[i])]))

\* section_for_sentence(sent) if a tie went to the section registered last
section_for_sentence_LastOnTie(sent) ==
    With(Lower(sent), LAMBDA text :
      With([i \in 1..Len(SECTION_KEYWORDS) |-> CountIn(SECTION_KEYWORDS[i][2], text)], LAMBDA scores :
        IF \A i \in 1..Len(scores) : scores[i] = 0 THEN DEFAULT_SECTION
        ELSE SECTION_KEYWORDS[CHOOSE i \in 1..Len(scores) :
                                 /\ \A k \in 1..Len(scores) : scores[k] <= scores[i]
                                 /\ \A k \in (i + 1)..Len(scores) : scores[k] < scores[i]][1]))

\* section_for_sentence(sent): the first section of SECTION_KEYWORDS among
\* those with the most keywords in the sentence
section_for_sentence(sent) ==
    With(Lower(sent), LAMBDA text :
      With([i \in 1..Len(SECTION_KEYWORDS) |-> CountIn(SECTION_KEYWORDS[i][2], text)], LAMBDA scores :
        IF \A i \in 1..Len(scores) : scores[i] = 0 THEN DEFAULT_SECTION
        ELSE SECTION_KEYWORDS[CHOOSE i \in 1..Len(scores) :
                                 /\ \A k \in 1..Len(scores) : scores[k] <= scores[i]
                                 /\ \A k \in 1..(i - 1) : scores[k] < scores[i]][1]))

\* split_into_sections(full_text) if the dict were built in the order of
\* UPSC_CATEGORIES + [DEFAULT_SECTION] instead of that of the sentences
split_into_sections_TableOrder(full_text) ==
    With(sentence_tokenize(clean_text(full_text)), LAMBDA sentences :
      With([i \in 1..Len(sentences) |-> section_for_sentence(sentences[i])], LAMBDA secs :
        With(SelectIndices(UPSC_CATEGORIES \o <<DEFAULT_SECTION>>,
                           {c \in 1..(Len(UPSC_CATEGORIES) + 1) :
                              \E i \in 1..Len(secs) : secs[i] = (UPSC_CATEGORIES \o <<DEFAULT_SECTION>>)[c]}, 1),
             LAMBDA order :
          [k \in 1..Len(order) |->
             <<order[k],
               Join("\n", SelectIndices(sentences, {i \in 1..Len(secs) : secs[i] = order[k]}, 1))>>])))

\* split_into_sections(full_text): the dict as a sequence of <<section, text>>
\* pairs in the dict's order, which is that of the sections' first sentences
split_into_sections(full_text) ==
    With(sentence_tokenize(clean_text(full_text)), LAMBDA sentences :
      With([i \in 1..Len(sentences) |-> section_for_sentence(sentences[i])], LAMBDA secs :
        With(DedupeKeepOrder(secs), LAMBDA order :
          [k \in 1..Len(order) |->
             <<order[k],
               Join("\n", SelectIndices(sentences, {i \in 1..Len(secs) : secs[i] = order[k]}, 1))>>])))

\* tfidf_summarize(text, max_sentences) where scikit-learn is not installed
\* (TfidfVectorizer is None): the first sentences
tfidf_summarize(text, max_sentences) ==
    Join("\n", Prefix(sentence_tokenize(text), max_sentences))

\* tfidf_summarize(text, max_sentences) if the top sentences were emitted as
\* ranked, without the final sorted(...) of their positions
TfidfSummarize_RankOrder(text, max_sentences, installed, fit) ==
    With(sentence_tokenize(text), LAMBDA sents :
      IF ~installed THEN Join("\n", Prefix(sents, max_sentences))
      ELSE IF sents = <<>> THEN ""
      ELSE IF fit.raises THEN Join("\n", Prefix(sents, max_sentences))
      ELSE LET before(i, k) == fit.scores[i] > fit.scores[k] \/ (fit.scores[i] = fit.scores[k] /\ i < k)
               rank(i) == 1 + Cardinality({k \in 1..Len(sents) : before(k, i)})
           IN  Join("\n", [r \in 1..Min(Len(sents), max_sentences) |->
                             sents[CHOOSE i \in 1..Len(sents) : rank(i) = r]]))

\* tfidf_summarize(text, max_sentences) in either build: installed is whether
\* TfidfVectorizer was imported, fit is what vec.fit_transform(sents) does: it
\* raises, or gives the matrix whose row sums are fit.scores.  ranked_idx is
\* the stable descending sort of the positions, so a position's rank is one
\* more than the number of positions with a higher score or an equal score
\* and a lower position; top is the sorted first max_sentences of them.
TfidfSummarize(text, max_sentences, installed, fit) ==
    With(sentence_tokenize(text), LAMBDA sents :
      IF ~installed THEN Join("\n", Prefix(sents, max_sentences))
      ELSE IF sents = <<>> THEN ""
      ELSE IF fit.raises THEN Join("\n", Prefix(sents, max_sentences))
      ELSE LET before(i, k) == fit.scores[i] > fit.scores[k] \/ (fit.scores[i] = fit.scores[k] /\ i < k)
               rank(i) == 1 + Cardinality({k \in 1..Len(sents) : before(k, i)})
               top == {i \in 1..Len(sents) : rank(i) <= max_sentences}
           IN  Join("\n", SelectIndices(sents, top, 1)))

-----------------------------------------------------------------------------
(* utils/analyzer_wrapper.py                                               *)

\* re.sub(r'^(The|A|An)\s+', '', s)
StripArticle(s0) ==
    With(s0, LAMBDA s :
      With(IF StartsWith(s, "The") /\ IsSpace(Ch(s, 4)) THEN 3
           ELSE IF StartsWith(s, "A") /\ IsSpace(Ch(s, 2)) THEN 1
           ELSE IF StartsWith(s, "An") /\ IsSpace(Ch(s, 3)) THEN 2
           ELSE 0, LAMBDA art :
        IF art = 0 THEN s ELSE SubSeq(s, FirstNotIn(s, art + 1, SpaceSet), Len(s))))

\* s[:n] + "..." if len(s) > n else s
Truncated(s0, n) == With(s0, LAMBDA s : IF Len(s) > n THEN Prefix(s, n) \o "..." ELSE s)

extract_key_headline(text) ==
    IF Blank(text) THEN ""
    ELSE With(sentence_tokenize(text), LAMBDA sentences :
           IF sentences = <<>> THEN Truncated(text, 100)
           ELSE With([i \in 1..Min(3, Len(sentences)) |-> StripArticle(Strip(sentences[i]))],
                     LAMBDA cleans :
                  With({i \in 1..Len(cleans) : Len(cleans[i]) >= 50 /\ Len(cleans[i]) <= 200},
                       LAMBDA good :
                    IF good /= {} THEN cleans[CHOOSE i \in good : \A k \in good : i <= k]
                    ELSE Truncated(Strip(sentences[1]), 150))))

create_short_summary(text, max_length) ==
    IF Blank(text) THEN ""
    ELSE With(tfidf_summarize(text, 2), LAMBDA tf :
           With(IF tf /= "" THEN tf
                ELSE With(sentence_tokenize(text), LAMBDA sentences :
                       IF sentences /= <<>> THEN Join(". ", Prefix(sentences, 2))
                       ELSE Prefix(text, max_length)), LAMBDA raw :
             With(Strip(raw), LAMBDA summary :
               With(IF \E e \in {".", "!", "?"} : EndsWith(summary, e) THEN summary
                    ELSE summary \o ".", LAMBDA ended :
                 IF Len(ended) > max_length THEN Prefix(ended, max_length - 3) \o "..." ELSE ended))))

OpinionWords == <<"should", "must", "ought", "believe", "think">>

\* re.search(r'\d+|[A-Z][a-z]+\s+[A-Z][a-z]+', s): a digit, or two
\* capitalised words with whitespace between them
HasFacts(s0) ==
    With(s0, LAMBDA s :
      \/ \E i \in 1..Len(s) : IsDigit(Ch(s, i))
      \/ \E i \in 1..Len(s) :
           /\ IsUpper(Ch(s, i))
           /\ With(FirstNotIn(s, i + 1, LowerSet), LAMBDA j :
                With(FirstNotIn(s, j, SpaceSet), LAMBDA k :
                  /\ j > i + 1
                  /\ k > j
                  /\ IsUpper(Ch(s, k))
                  /\ Ch(s, k + 1) \in LowerSet)))

\* re.sub(r'^(Headline|Summary|News):\s*', '', s, flags=re.IGNORECASE)
StripLabel(s0) ==
    With(s0, LAMBDA s :
      With({l \in {"headline:", "summary:", "news:"} : StartsWith(Lower(Prefix(s, 9)), l)}, LAMBDA ls :
        IF ls = {} THEN s
        ELSE SubSeq(s, FirstNotIn(s, Len(CHOOSE l \in ls : TRUE) + 1, SpaceSet), Len(s))))

\* whether the loop of extract_prelims_points considers the stripped sentence
PrelimCandidate(clean) ==
    /\ Len(clean) >= 30
    /\ Len(clean) <= 120
    /\ ~EndsWith(clean, "?")
    /\ CountIn(OpinionWords, Lower(clean)) = 0

\* the loop of extract_prelims_points from sentence i on
RECURSIVE PrelimsFrom(_, _, _, _)
PrelimsFrom(sentences, i, points, max_points) ==
    IF i > Len(sentences) THEN points
    ELSE With(Strip(sentences[i]), LAMBDA clean :
           IF ~PrelimCandidate(clean) \/ ~(HasFacts(clean) \/ Len(points) < max_points)
           THEN PrelimsFrom(sentences, i + 1, points, max_points)
           ELSE With(Append(points, StripLabel(clean)), LAMBDA more :
                  IF Len(more) >= max_points THEN more
                  ELSE PrelimsFrom(sentences, i + 1, more, max_points)))

\* extract_prelims_points(text, max_points) for max_points >= 0
extract_prelims_points(text, max_points) ==
    With(sentence_tokenize(text), LAMBDA sentences :
      Prefix(PrelimsFrom(sentences, 1, <<>>, max_points), max_points))

angle_templates == <<
    <<"polity", <<"Explain implications for governance/public policy.",
                  "Discuss potential impact on constitutional provisions.">> >>,
    <<"economy", <<"Discuss potential impact on economy and society.",
                   "Analyze fiscal/monetary policy implications.">> >>,
    <<"international", <<"Analyze impact on India's foreign relations.",
                         "Discuss geopolitical implications for the region.">> >>,
    <<"environment", <<"Assess environmental and sustainability implications.",
                       "Discuss impact on climate goals and biodiversity.">> >>,
    <<"science_tech", <<"Discuss technological advancement and applications.",
                        "Analyze implications for innovation and development.">> >>,
    <<"social", <<"Examine social impact and welfare implications.",
                  "Discuss effects on equity and inclusiveness.">> >>,
    <<"security", <<"Analyze national security implications.",
                    "Discuss strategic importance for defense.">> >>,
    <<"geography", <<"Examine geographical significance and regional impact.",
                     "Discuss implications for resource management.">> >> >>

\* extract_mains_angles(text, category, max_angles) for max_angles >= 0
extract_mains_angles(text, category, max_angles) ==
    With({i \in 1..Len(angle_templates) : angle_templates[i][1] = category}, LAMBDA hit :
      Prefix(IF hit = {}
             THEN <<"Explain implications for governance/public policy.",
                    "Discuss potential impact on economy and society.">>
             ELSE angle_templates[CHOOSE i \in hit : TRUE][2], max_angles))

\* len(text.split())
WordCount(text) ==
    With(text, LAMBDA s :
      Cardinality({i \in 1..Len(s) : ~IsSpace(Ch(s, i)) /\ (i = 1 \/ IsSpace(Ch(s, i - 1)))}))

important_cats == {"polity", "economy", "international", "environment"}

upsc_keywords == <<"policy", "governance", "constitution", "act", "scheme",
                   "government", "india", "minister", "court", "reform">>

calculate_relevance(text, category) ==
    IF Blank(text) THEN 1
    ELSE With(WordCount(text), LAMBDA word_count :
           With(IF word_count < 30 THEN 2 ELSE IF word_count < 80 THEN 5
                ELSE IF word_count < 200 THEN 7 ELSE 8, LAMBDA base :
             With(IF category \in important_cats THEN Min(10, base + 2) ELSE base, LAMBDA boosted :
               With(IF CountIn(upsc_keywords, Lower(text)) >= 3 THEN Min(10, boosted + 1) ELSE boosted,
                    LAMBDA score :
                 Max(1, Min(10, score))))))

\* SectionItem with the threshold test 'relevance <= min_relevance': a fault
\* C14 is tested against
SectionItem_DropsEqual(category, section_text, min_relevance, now) ==
    With(extract_key_headline(section_text), LAMBDA headline :
      With(calculate_relevance(section_text, category), LAMBDA relevance :
        With(extract_prelims_points(section_text, 3), LAMBDA prelims :
          [keep |-> /\ Len(Strip(section_text)) >= 50
                    /\ headline /= ""
                    /\ relevance > min_relevance,
           item |-> [category |-> category, headline |-> headline,
                     summary |-> create_short_summary(section_text, 180),
                     prelims |-> prelims, relevance |-> relevance,
                     timestamp |-> Prefix(now, 16), source |-> "PDF Document",
                     deep |-> [prelims_points |-> prelims,
                               mains_angles |-> extract_mains_angles(section_text, category, 2),
                               interview_questions |-> <<>>],
                     has_deep_analysis |-> FALSE]])))

\* One pass of the loop of analyze_pdf_and_build_notes: [keep, item].  keep is
\* FALSE where the pass ends in a continue.  now is the clock's reading,
\* "YYYY-MM-DD HH:MM:SS"; has_deep_analysis tells whether the item has the key.
SectionItem(category, section_text, min_relevance, now) ==
    With(extract_key_headline(section_text), LAMBDA headline :
      With(calculate_relevance(section_text, category), LAMBDA relevance :
        With(extract_prelims_points(section_text, 3), LAMBDA prelims :
          [keep |-> /\ Len(Strip(section_text)) >= 50
                    /\ headline /= ""
                    /\ relevance >= min_relevance,
           item |-> [category |-> category, headline |-> headline,
                     summary |-> create_short_summary(section_text, 180),
                     prelims |-> prelims, relevance |-> relevance,
                     timestamp |-> Prefix(now, 16), source |-> "PDF Document",
                     deep |-> [prelims_points |-> prelims,
                               mains_angles |-> extract_mains_angles(section_text, category, 2),
                               interview_questions |-> <<>>],
                     has_deep_analysis |-> FALSE]])))

\* GroupItems with a key for every category from the start, as analyze_pdf_text
\* builds its dict: a fault C4 is tested against
GroupItems_EveryCategory(all_items0) ==
    With(all_items0, LAMBDA all_items :
      With(Append(UPSC_CATEGORIES, DEFAULT_SECTION), LAMBDA keys :
        [k \in 1..Len(keys) |->
           <<keys[k], SelectIndices(all_items, {i \in 1..Len(all_items) :
                                                   all_items[i].category = keys[k]}, 1)>>]))

\* grouped, as a sequence of <<category, items>> pairs in the dict's order,
\* from the items the loop appended: a key is created when its first item is
GroupItems(all_items0) ==
    With(all_items0, LAMBDA all_items :
      With(DedupeKeepOrder([i \in 1..Len(all_items) |-> all_items[i].category]), LAMBDA keys :
        [k \in 1..Len(keys) |->
           <<keys[k], SelectIndices(all_items, {i \in 1..Len(all_items) :
                                                   all_items[i].category = keys[k]}, 1)>>]))

\* len(l[:k]) for a list of n elements
SliceEnd(n, k) == IF k >= 0 THEN Min(n, k) ELSE Max(0, n + k)

\* The items after all_items.sort(...) and the marking of all_items[:deep_k];
\* the result is in the order the loop appended them, as grouped holds them.
MarkDeep(all_items0, deep_k) ==
    With(all_items0, LAMBDA all_items :
      With(SortDesc([i \in 1..Len(all_items) |-> <<all_items[i].relevance, i>>]), LAMBDA sorted :
        With({sorted[r][2] : r \in 1..SliceEnd(Len(sorted), deep_k)}, LAMBDA top :
          [i \in 1..Len(all_items) |-> [all_items[i] EXCEPT !.has_deep_analysis = i \in top]])))

\* analyze_pdf_and_build_notes(full_text, deep_k, min_relevance)
analyze_pdf_and_build_notes(full_text, deep_k, min_relevance, now) ==
    With(split_into_sections(full_text), LAMBDA sections :
      With([k \in 1..Len(sections) |-> SectionItem(sections[k][1], sections[k][2], min_relevance, now)],
           LAMBDA passes :
        With(MarkDeep([k \in 1..Cardinality({i \in 1..Len(passes) : passes[i].keep}) |->
                         passes[CHOOSE i \in 1..Len(passes) :
                                  /\ passes[i].keep
                                  /\ Cardinality({o \in 1..(i - 1) : passes[o].keep}) = k - 1].item],
                      deep_k), LAMBDA all_items :
          With(GroupItems(all_items), LAMBDA grouped :
            [grouped |-> grouped,
             total_items |-> Len(all_items),
             categories |-> [k \in 1..Len(grouped) |-> grouped[k][1]],
             timestamp |-> now]))))

-----------------------------------------------------------------------------
(* api/routes/pdf.py                                                       *)

\* the key the server expects: os.getenv("API_KEY", CONFIG_API_KEY)
ExpectedApiKey == "secret"

HttpError(status, detail) == [status |-> status, detail |-> detail]

\* POST /pdf/analyze under environment e: the response's status, and its
\* detail or body.  x_api_key = "" stands for no key given.  The call of
\* get_llm names a parameter, mode, that get_llm does not have: it raises
\* whenever it is reached, and with it every request that got that far ends
\* in the handler of line 116.
analyze_pdf(filename, file_bytes, x_api_key, mode, e) ==
    IF x_api_key /= ExpectedApiKey THEN HttpError(401, "Invalid or missing API Key")
    ELSE IF ~EndsWith(Lower(filename), ".pdf") THEN HttpError(400, "Only PDF uploads are supported")
    ELSE IF file_bytes.empty THEN HttpError(400, "Empty file uploaded")
    ELSE With(extract_pdf_text_bytes(file_bytes, FALSE), LAMBDA extraction_result :
           IF extraction_result.raised
           THEN HttpError(500, "Internal server error: " \o extraction_result.exc)
           ELSE With(get_llm({"model_name", "mode"}, e), LAMBDA llm :
                  IF llm.raises THEN HttpError(500, "Internal server error: " \o llm.exc)
                  ELSE [status |-> 200, ok |-> TRUE,
                        page_count |-> extraction_result.page_count,
                        sections |-> split_into_sections(extraction_result.full),
                        raw_characters_extracted |-> Len(extraction_result.full)]))

-----------------------------------------------------------------------------
(* api/routes/notes.py                                                     *)

\* The store is the content of the notes file as _load() returns it: a dict
\* from dates to lists of notes, {} when the file is missing.  A note is
\* [title, url, relevance]; "" stands for a url, or a key of a payload, that
\* is None.

\* data.get(date, [])
NotesAt(data, date) == IF date \in DOMAIN data THEN data[date] ELSE <<>>

\* data[date] = items
WithDate(data, date, items) ==
    [d \in DOMAIN data \cup {date} |-> IF d = date THEN items ELSE data[d]]

\* del data[date]
WithoutDate(data, date) == [d \in DOMAIN data \ {date} |-> data[d]]

\* save_note(req) if the note were appended without the look for an equal one
save_note_NoLookup(data, date, note) ==
    [write |-> TRUE, data |-> WithDate(data, date, Append(NotesAt(data, date), note)),
     status |-> 200, message |-> "Saved"]

\* save_note(req) on the loaded store: whether _save is called and with what,
\* and the answer
save_note(data, date, note) ==
    IF \E i \in 1..Len(NotesAt(data, date)) :
         NotesAt(data, date)[i].title = note.title /\ NotesAt(data, date)[i].url = note.url
    THEN [write |-> FALSE, data |-> data, status |-> 200, message |-> "Already saved"]
    ELSE [write |-> TRUE, data |-> WithDate(data, date, Append(NotesAt(data, date), note)),
          status |-> 200, message |-> "Saved"]

\* list_notes(date) if the sorted list were saved
list_notes_SavesOrder(data, date) ==
    With(SortDesc([i \in 1..Len(NotesAt(data, date)) |->
                     <<NotesAt(data, date)[i].relevance, NotesAt(data, date)[i]>>]), LAMBDA sorted :
      [write |-> date \in DOMAIN data,
       data |-> IF date \in DOMAIN data
                THEN WithDate(data, date, [i \in 1..Len(sorted) |-> sorted[i][2]]) ELSE data,
       status |-> 200, date |-> date, items |-> [i \in 1..Len(sorted) |-> sorted[i][2]]])

\* list_notes(date): items.sort(key=relevance, reverse=True) on the loaded
\* list; nothing is saved
list_notes(data, date) ==
    With(SortDesc([i \in 1..Len(NotesAt(data, date)) |->
                     <<NotesAt(data, date)[i].relevance, NotesAt(data, date)[i]>>]), LAMBDA sorted :
      [write |-> FALSE, data |-> data, status |-> 200, date |-> date,
       items |-> [i \in 1..Len(sorted) |-> sorted[i][2]]])

\* delete_day(date)
delete_day(data, date) ==
    IF date \in DOMAIN data
    THEN [write |-> TRUE, data |-> WithoutDate(data, date), status |-> 200,
          message |-> "Deleted all notes for " \o date]
    ELSE [write |-> FALSE, data |-> data, status |-> 404, message |-> "Date not found"]

\* keep(x) of delete_one_note
KeepNote(x, title, url) ==
    IF title /= "" /\ url /= "" THEN ~(x.title = title /\ x.url = url)
    ELSE IF title /= "" THEN x.title /= title
    ELSE IF url /= "" THEN x.url /= url
    ELSE TRUE

\* delete_one_note(payload) if a title were enough although a url is given
delete_one_note_TitleOnly(data, date, title, url) ==
    IF date = "" THEN [write |-> FALSE, data |-> data, status |-> 400, message |-> "date required"]
    ELSE With(NotesAt(data, date), LAMBDA items :
      IF items = <<>>
      THEN [write |-> FALSE, data |-> data, status |-> 404, message |-> "No notes for this date"]
      ELSE With(SelectIndices(items, {i \in 1..Len(items) :
                                        KeepNote(items[i], title, IF title /= "" THEN "" ELSE url)}, 1),
                LAMBDA new_items :
             IF Len(new_items) = Len(items)
             THEN [write |-> FALSE, data |-> data, status |-> 404,
                   message |-> "Note not found with given keys"]
             ELSE [write |-> TRUE, data |-> WithDate(data, date, new_items), status |-> 200,
                   message |-> "Note deleted"]))

\* delete_one_note(payload) for payload = {date, title, url}
delete_one_note(data, date, title, url) ==
    IF date = "" THEN [write |-> FALSE, data |-> data, status |-> 400, message |-> "date required"]
    ELSE With(NotesAt(data, date), LAMBDA items :
      IF items = <<>>
      THEN [write |-> FALSE, data |-> data, status |-> 404, message |-> "No notes for this date"]
      ELSE With(SelectIndices(items, {i \in 1..Len(items) : KeepNote(items[i], title, url)}, 1),
                LAMBDA new_items :
             IF Len(new_items) = Len(items)
             THEN [write |-> FALSE, data |-> data, status |-> 404,
                   message |-> "Note not found with given keys"]
             ELSE [write |-> TRUE, data |-> WithDate(data, date, new_items), status |-> 200,
                   message |-> "Note deleted"]))

-----------------------------------------------------------------------------
(* Inputs.                                                                 *)

\* Process environments: what get_llm finds when it is called.
Envs == {
    [groq_key |-> TRUE,  openai_key |-> FALSE, provider |-> "",       ChatGroq |-> TRUE,  ChatOpenAI |-> FALSE, ctor_ok |-> TRUE],
    [groq_key |-> FALSE, openai_key |-> FALSE, provider |-> "",       ChatGroq |-> TRUE,  ChatOpenAI |-> TRUE,  ctor_ok |-> TRUE],
    [groq_key |-> TRUE,  openai_key |-> FALSE, provider |-> "groq",   ChatGroq |-> FALSE, ChatOpenAI |-> FALSE, ctor_ok |-> TRUE],
    [groq_key |-> TRUE,  openai_key |-> TRUE,  provider |-> "openai", ChatGroq |-> TRUE,  ChatOpenAI |-> TRUE,  ctor_ok |-> FALSE] }

\* The text of the rate-cut example.
RateCutText ==
    "RBI cuts repo rate by 25 basis points to boost growth. "
    \o "The move was announced on 10 June 2024."

\* Texts handed to the scorer.
ScoreTexts == {
    "",
    "RBI cuts repo rate",
    "Cricket movie gossip goes viral",
    "Parliament passes bill on gst and budget; rbi and sebi react to inflation",
    "Cabinet clears draft export regulation",
    "A quiet day",
    RateCutText }

\* What the transformer answers to the scorer's prompt.
ScoreAnswers == {
    Raised, Answer(""), Answer("7"), Answer("0"), Answer("10"), Answer("12"),
    Answer("Score: 8/10"), Answer("100"), Answer("none"), Answer("-3"), Answer("007") }

\* Articles as the fetcher returns them; a missing field (None) is "" for the
\* text fields, which the code reads through _str(...) and (... or "").
Articles == {
    [title |-> "RBI policy ", description |-> "Repo rate cut by RBI", content |-> "", url |-> "u1",
     publishedAt |-> "2024-01-12", source |-> PyDict(<< <<"id", PyNone>>, <<"name", PyStr("PIB")>> >>)],
    [title |-> " ", description |-> "", content |-> "ISRO launch on 12 Jan 2024", url |-> "",
     publishedAt |-> "", source |-> PyNone],
    [title |-> "Cricket final", description |-> "viral movie gossip", content |-> "", url |-> "u3",
     publishedAt |-> "", source |-> PyStr("BBC")] }

\* The longest list of articles one fetch returns.
MaxArticles == 2

ArticleLists == UNION {[1..n -> Articles] : n \in 0..MaxArticles}

PageSizes == {0, 1, 20}

AiModes == {"deep", "fast"}

\* What the transformer answers to the structurer's prompt.
StructureAnswers == {
    Raised, Answer(""), Answer("not json"), Answer("12"), Answer("[]"),
    Answer("{\"category\": \"polity\",}"),
    Answer("{\"category\": \"Science Tech\", \"prelims_points\": \"- a\\n@ b\", \"dates\": [\"2024-01-12\"]}"),
    Answer("Here you go: {\"summary_en\": \"S\", \"mains_angles\": [\" m \", null, \"--\"], \"category\": \"sports\"}") }

\* The two of them the route's loop is run with.
IngestStructureAnswers == {Raised, Answer("{\"category\": \"polity\",}")}

IngestScoreAnswers == {Raised, Answer("12"), Answer("0")}

\* The most chunks analyze_pdf_text sends to the transformer.
MaxChunks == 12

\* What the transformer answers to the extractor's prompt for a chunk.
\* the empty text
A_Empty == ""
\* text that is no JSON
A_NotJson == "not json"
\* a fenced object whose one item has relevance 12
A_Fenced12 ==
    "~~~json\n{\"items\": [{\"title\": \"Budget\", \"category\": \"economy\","
    \o " \"relevance\": 12}]}\n~~~"
\* relevances 7.2 and 7.9, and a second item of the first one's title
A_Floats ==
    "{\"items\": [{\"title\": \"RBI Rate\", \"relevance\": 7.2, \"category\": "
    \o "\"economy\"}, {\"title\": \" rbi rate \", \"relevance\": 3, \"category\": "
    \o "\"polity\", \"summary_en\": \"dup\"}, {\"title\": \"Repo\", \"relevance\": "
    \o "7.9, \"category\": \"economy\"}]}"
\* items is null
A_ItemsNull == "{\"items\": null}"
\* an item whose relevance is null
A_RelNull == "{\"items\": [{\"title\": \"X\", \"relevance\": null}]}"
\* an item that is no object
A_NonDict == "{\"items\": [\"x\"]}"
\* items without a usable title
A_EmptyTitles ==
    "{\"items\": [{\"title\": \"\", \"relevance\": 5}, {\"relevance\": 4}, {\"title\": "
    \o "null}, {\"title\": \"  \"}]}"
\* a string relevance, an unknown category and an unclean list
A_Unclean ==
    "{\"items\": [{\"title\": \"A b\", \"category\": \"sports\", \"relevance\": "
    \o "\"9\", \"prelims_points\": [\" x \", null, \"\"]}]}"
\* two items of equal relevance before one of higher relevance
A_Ties ==
    "{\"items\": [{\"title\": \"T1\", \"relevance\": 5, \"category\": \"polity\"},"
    \o " {\"title\": \"T2\", \"relevance\": 5, \"category\": \"polity\"}, {\"title\": "
    \o "\"T3\", \"relevance\": 8, \"category\": \"polity\"}]}"
\* a title of 119 characters
LongTitle ==
    "LLLLLLLLLLLLLLLLLLLLLLLLLLLLLLLLLLLLLLLLLLLLLLLLLLLLLLLLLLLL"
    \o "LLLLLLLLLLLLLLLLLLLLLLLLLLLLLLLLLLLLLLLLLLLLLLLLLLLLLLLLLLL"
\* two titles that agree in their first 120 characters after trimming and
\* lower-casing, and one of 119 characters
A_Long ==
    "{\"items\": [{\"title\": \"" \o LongTitle \o "ab\","
    \o " \"relevance\": 1}, {\"title\": \" " \o LongTitle \o "AC\","
    \o " \"relevance\": 2}, {\"title\": \"" \o LongTitle \o "\","
    \o " \"relevance\": 3}]}"
\* ten spellings of one title that differ in letter case only
A_Variants1 ==
    "{\"items\": [{\"title\": \"abcde\", \"relevance\": 0}, {\"title\": \"Abcde\","
    \o " \"relevance\": 1}, {\"title\": \"aBcde\", \"relevance\": 2}, {\"title\": "
    \o "\"ABcde\", \"relevance\": 3}, {\"title\": \"abCde\", \"relevance\": 4}, "
    \o "{\"title\": \"AbCde\", \"relevance\": 5}, {\"title\": \"aBCde\", \"relevance\": "
    \o "6}, {\"title\": \"ABCde\", \"relevance\": 7}, {\"title\": \"abcDe\", \"relevance\": "
    \o "8}, {\"title\": \"AbcDe\", \"relevance\": 9}]}"
\* ten more
A_Variants2 ==
    "{\"items\": [{\"title\": \"aBcDe\", \"relevance\": 10}, {\"title\": \"ABcDe\","
    \o " \"relevance\": 0}, {\"title\": \"abCDe\", \"relevance\": 1}, {\"title\": "
    \o "\"AbCDe\", \"relevance\": 2}, {\"title\": \"aBCDe\", \"relevance\": 3}, "
    \o "{\"title\": \"ABCDe\", \"relevance\": 4}, {\"title\": \"abcdE\", \"relevance\": "
    \o "5}, {\"title\": \"AbcdE\", \"relevance\": 6}, {\"title\": \"aBcdE\", \"relevance\": "
    \o "7}, {\"title\": \"ABcdE\", \"relevance\": 8}]}"
\* and ten more
A_Variants3 ==
    "{\"items\": [{\"title\": \"abCdE\", \"relevance\": 9}, {\"title\": \"AbCdE\","
    \o " \"relevance\": 10}, {\"title\": \"aBCdE\", \"relevance\": 0}, {\"title\": "
    \o "\"ABCdE\", \"relevance\": 1}, {\"title\": \"abcDE\", \"relevance\": 2}, "
    \o "{\"title\": \"AbcDE\", \"relevance\": 3}, {\"title\": \"aBcDE\", \"relevance\": "
    \o "4}, {\"title\": \"ABcDE\", \"relevance\": 5}, {\"title\": \"abCDE\", \"relevance\": "
    \o "6}, {\"title\": \"AbCDE\", \"relevance\": 7}]}"


\* the outcome of the k-th call of llm.invoke under a script of outcomes; a
\* script shorter than the run is read again from its start
ScriptAt(script, k) == script[((k - 1) % Len(script)) + 1]

\* Calls of analyze_pdf_text(full_text, chunk_size=..., overlap=...) together
\* with the outcomes of the calls of the transformer it makes.
PdfJob(full_text, chunk_size, overlap, script) ==
    [full_text |-> full_text, chunk_size |-> chunk_size, overlap |-> overlap, script |-> script]

PdfJobs ==
    {PdfJob("Budget 2024", 6000, 300, <<a>>) :
        a \in {Raised, Answer(A_Empty), Answer(A_NotJson), Answer(A_Fenced12), Answer(A_Floats),
               Answer(A_ItemsNull), Answer(A_RelNull), Answer(A_NonDict), Answer(A_EmptyTitles),
               Answer(A_Unclean), Answer(A_Ties), Answer(A_Long)}}
    \cup {PdfJob("ab", 1, 0, <<Answer(a), Answer(b)>>) :
            a, b \in {A_Fenced12, A_Floats, A_EmptyTitles, A_Unclean, A_Ties, A_Long}}
    \cup {PdfJob("", 6000, 300, <<Raised>>),
          PdfJob("abc", 1, 0, <<Answer(A_Variants1), Answer(A_Variants2), Answer(A_Variants3)>>),
          PdfJob("abc", 1, 0, <<Answer(A_Ties), Answer(A_Floats), Raised>>),
          PdfJob("abc", 1, 0, <<Answer(A_Floats), Answer(A_Ties), Answer(A_Fenced12)>>),
          PdfJob("abc", 1, 0, <<Answer(A_Ties), Answer(A_Ties), Answer(A_Long)>>),
          PdfJob("Budget 2024 and RBI", 12, 2, <<Answer(A_Ties), Answer(A_Floats)>>),
          PdfJob("abcdefghijklmn", 1, 0, <<Answer(A_Ties), Answer(A_Fenced12)>>)}

\* A sentence of more than 100 characters.
CabinetSentence ==
    "The Union Cabinet approved a new policy on governance reform in India "
    \o "and the minister announced the scheme today."

QuietSentence == "A quiet village stood beside the old stone bridge for many long years."

RbiSentence ==
    "RBI kept the repo rate unchanged while inflation eased across the economy in March 2024."

DeltaSentence == "The river delta floods each monsoon and the soil stays rich for agriculture."

\* Pages as the reader sees them: a page of text, an image-only page the OCR
\* can read, a blank page the OCR fails on, and a page whose text is in its
\* blocks only.
Pages == {
    [text |-> CabinetSentence, blocks |-> <<>>, ocr |-> Answer("")],
    [text |-> "", blocks |-> <<>>, ocr |-> Answer("Scanned page")],
    [text |-> " \n", blocks |-> <<>>, ocr |-> Raised],
    [text |-> "", blocks |-> <<"Block one", "Block two">>, ocr |-> Answer("unused")] }

\* The most pages of a document.
MaxPages == 2

\* Uploaded bytes: none, bytes fitz.open rejects, and documents.
Uploads ==
    {[empty |-> TRUE, opens |-> FALSE, pages |-> <<>>],
     [empty |-> FALSE, opens |-> FALSE, pages |-> <<>>]}
    \cup {[empty |-> FALSE, opens |-> TRUE, pages |-> ps] :
            ps \in UNION {[1..n -> Pages] : n \in 0..MaxPages}}

Filenames == {"notes.PDF", "notes.txt"}

ApiKeys == {"", "secret"}

\* Texts handed to analyze_pdf_and_build_notes.
NoteTexts == {
    "",
    "India rises",
    CabinetSentence,
    CabinetSentence \o "\n" \o QuietSentence,
    CabinetSentence \o "\n" \o RbiSentence \o "\n" \o DeltaSentence \o "\n" \o QuietSentence,
    "A.\nB.\n" \o DeltaSentence \o " " \o DeltaSentence }

CourtSentence ==
    "The Supreme Court upheld the ordinance after Parliament passed the bill last week."

BudgetSentence ==
    "The budget narrowed the fiscal deficit as exports and imports grew this quarter."

ClockSentence == "An old clock ticked slowly in the hall while nobody listened at all."

\* Documents for split_into_sections: empty, of one section, with the sections
\* met in another order than the keyword table's, with a section's sentences
\* apart from each other, with a sentence twice, on lines and on one line.
SectionTexts == {
    "",
    QuietSentence,
    RbiSentence \o "\n" \o CabinetSentence,
    CabinetSentence \o "\n" \o RbiSentence \o "\n" \o CourtSentence \o "\n" \o BudgetSentence,
    DeltaSentence \o "\n" \o QuietSentence \o "\n" \o RbiSentence \o "\n" \o ClockSentence
        \o "\n" \o CabinetSentence,
    BudgetSentence \o "\n" \o RbiSentence,
    RbiSentence \o " " \o CabinetSentence \o " " \o BudgetSentence,
    DeltaSentence \o " " \o RbiSentence \o " " \o DeltaSentence,
    "Short line.\n" \o BudgetSentence \o "\n" \o CourtSentence \o "\n" \o BudgetSentence,
    QuietSentence \o "\n" \o CourtSentence \o "\n" \o ClockSentence,
    CourtSentence \o " " \o QuietSentence \o " " \o DeltaSentence \o " " \o ClockSentence
        \o " " \o CourtSentence }

\* Sentences for section_for_sentence: without a keyword, with keywords of one
\* section, with a clear winner among several, and with ties between sections
\* (the later section's keyword coming first in the sentence, too).
SectionSentences == {
    "",
    "Nothing here.",
    "A quiet village stood beside the old stone bridge.",
    "RBI kept rates steady.",
    "CABINET NOTE",
    "Economic reform.",
    "Plateau.",
    "Women and child health scheme.",
    "The river met the budget.",
    "Parliament passed the budget.",
    "Treaty on trade.",
    "Tariff and sanction.",
    "Status of the forest.",
    "The navy guards the coast.",
    "Robot army.",
    "The army needs a new policy on the border.",
    "GDP and inflation rose while the Supreme Court heard the bill.",
    "ISRO satellite research helps climate and pollution studies.",
    "Monsoon soil and terrain shape agriculture.",
    "Education policy and health act in parliament debate on welfare.",
    "Glacier melt raises sea level on the coastal delta.",
    "Google opens a data centre in Visakhapatnam.",
    "Minority welfare and the defence of the border.",
    "Wildlife conservation and space technology.",
    "Naxal terror and caste poverty." }

\* Texts for tfidf_summarize, of zero to four sentences, all different.
SummaryTexts == {
    "",
    QuietSentence,
    RbiSentence \o " " \o CabinetSentence,
    DeltaSentence \o " " \o CourtSentence \o " " \o BudgetSentence,
    ClockSentence \o " " \o BudgetSentence \o " " \o CabinetSentence \o " " \o DeltaSentence }

\* max_sentences: what the callers pass (2, 3, 5) and one.
MaxSentences == {1, 2, 3, 5}

\* A sentence's score, the sum of its row of the tf-idf matrix, in steps.
MaxScore == 2

\* What vec.fit_transform does on n sentences.
Fits(n) ==
    {[raises |-> TRUE, scores |-> <<>>]}
    \cup {[raises |-> FALSE, scores |-> s] : s \in [1..n -> 0..MaxScore]}

\* Texts for _keyword_fallback_score: empty and blank, without a keyword, with
\* keywords in capitals and inside other words, with enough high and medium
\* keywords to pass 10, and with up to five low keywords.
FallbackTexts == {
    "", " ", "A quiet day", "RBI", "PLI scheme", "PLI", "Cabinet", "cricket",
    "Cricket movie gossip goes viral", "rbi cricket", "cabinet cricket", "cabinet movie cricket",
    "rbi movie cricket viral gossip", "rbi gst sebi gdp quad", "rbi gst sebi gdp quad fdi",
    "rbi gst sebi gdp quad isro drdo", "rbi gst sebi gdp quad fdi cricket",
    "rbi gst sebi gdp quad fdi pmi movie viral gossip rumour",
    "rbi gst sebi gdp quad isro movie viral gossip rumour",
    "rbi budget gdp cricket movie gossip viral celebrity",
    "fdi pmi draft", "fdi pmi draft index cricket football", "It rained again", "Impact",
    "BUDGET AND GDP", "gst movie", "rating", "unsc g20 fta cop", "Stock tips",
    "draft export regulation", "RBI cuts repo rate", RateCutText }

\* Texts for chunk_text: the first n characters of five sentences, for lengths
\* below, at and above 100 that are and are not multiples of the steps.
ChunkTexts ==
    {Prefix(RbiSentence \o " " \o CabinetSentence \o " " \o DeltaSentence \o " "
            \o CourtSentence \o " " \o BudgetSentence, n) : n \in {0, 50, 99, 100, 230, 300, 401}}

\* <<size, overlap>>: the defaults of chunk_text (6000, 300), the spec's
\* example (3000, 200) and windows shorter than the texts
ChunkWindows == {<<6000, 300>>, <<3000, 200>>, <<200, 0>>, <<200, 50>>, <<150, 0>>, <<150, 50>>}

\* Short texts and small windows for chunk_text, with overlaps below, at and
\* above the size, where the step is 1
ShortChunkTexts == {Prefix(RbiSentence, n) : n \in {0, 1, 2, 7, 12}}

SmallChunkWindows == {<<1, 0>>, <<1, 1>>, <<3, 0>>, <<3, 1>>, <<3, 2>>, <<3, 3>>, <<3, 5>>, <<5, 2>>}

\* <<s, size, overlap>> of the calls of chunk_text
ChunkCalls ==
    {<<s, w[1], w[2]>> : s \in ChunkTexts, w \in ChunkWindows}
      \cup {<<s, w[1], w[2]>> : s \in ShortChunkTexts, w \in SmallChunkWindows}

\* Values for _ensure_list, one after the other: none, lists with none,
\* numbers, nested values and bulleted strings, strings of several lines,
\* other types, and strings with a bullet behind a bullet and a tab or newline
EnsureValues == <<
    PyNone,
    PyList(<<>>),
    PyList(<<PyStr("- a"), PyNone, PyInt(5), PyStr("@ b")>>),
    PyList(<<PyStr("  "), PyStr("---"), PyStr("@"), PyStr("x")>>),
    PyList(<<PyFloat(TRUE, 1, "5"), PyBool(TRUE), PyList(<<PyStr("- a")>>)>>),
    PyList(<<PyStr("a\nb"), PyStr("--- a ---")>>),
    PyStr("x\n- y\n\n@ z"),
    PyStr(""),
    PyStr("- Article 21 \n@ RBI  "),
    PyInt(7),
    PyBool(FALSE),
    PyDict(<< <<"a", PyStr("- b")>> >>),
    PyList(<<PyStr("-\t- Repo rate")>>),
    PyList(<<PyStr("- \n- a")>>),
    PyStr("@\t@ point\nok") >>

\* Labels for _normalize_category, one after the other: none, empty, of the
\* set in other case and spacing, and outside the set.
CategoryLabels == <<
    PyNone, PyStr(""), PyStr("Polity"), PyStr(" science tech "), PyStr("Science_Tech"),
    PyStr("science  tech"), PyStr("sports"), PyStr("GENERAL"), PyStr("economy\n"),
    PyStr("governance"), PyStr("current affairs") >>

\* Contexts for _normalize_category: without a keyword, with keywords of one
\* rule, of several rules, and inside other words ("un" in "launch").
CategoryContexts == {
    "", "A quiet day", "RBI cuts repo rate", "Parliament passes the Budget", "ISRO launch",
    "SEBI regulator", "Army at the border", "River flood and drought", "Women and child health" }

\* Valid JSON objects a transformer may answer with.
JsonObjects == {
    "{\"items\": [{\"title\": \"A\", \"relevance\": 7}]}",
    "{\"category\": \"polity\", \"dates\": []}",
    "{}",
    "{\"items\": [{\"title\": \"B\", \"meta\": {\"k\": [1, 2]}}, {\"title\": \"C\"}]}",
    "{\"items\": []}" }

\* What a response puts before and after the object: nothing, a code fence
\* with and without a language, commentary before, after and around, the two
\* together, and commentary that holds braces.
Wrappings == {
    <<"", "">>,
    <<Fence \o "json\n", "\n" \o Fence>>,
    <<Fence \o "\n", "\n" \o Fence>>,
    <<"Here is the JSON:\n", "">>,
    <<"", "\nHope this helps.">>,
    <<"Sure.\n", "\nDone.">>,
    <<"Here is the JSON:\n" \o Fence \o "json\n", "\n" \o Fence>>,
    <<Fence \o "json\n", "\n" \o Fence \o "\nHope this helps.">>,
    <<"Keys are in {braces}:\n", "">> }

\* The dates notes are saved under.
NoteDates == {"2024-01-12", "2024-01-13"}

\* The notes of the save requests: two with the same title, two with the same
\* url, and two with the same title and url that differ in relevance.
SavedNotes == {
    [title |-> "A", url |-> "u1", relevance |-> 1],
    [title |-> "A", url |-> "u1", relevance |-> 0],
    [title |-> "A", url |-> "u2", relevance |-> 2],
    [title |-> "B", url |-> "u1", relevance |-> 2] }

\* The title and the url of a delete_one payload; "" is a missing key.
PayloadTitles == {"", "A", "B"}

PayloadUrls == {"", "u1", "u2"}

DeepKs == {0, 1, 5}

MinRelevances == {0, 4, 6}

\* The clock's reading.
Clock == {"2024-01-12 10:30:05"}

-----------------------------------------------------------------------------
(* The state machine: one request at a time, served to completion.  A      *)
(* handler that loops over transformer calls takes one step per pass of    *)
(* its loop; pc is its position and loc holds its local variables.         *)

\* The requests that call get_llm at the same time.
Callers == {"r1", "r2"}

\* The most clients built in one run of the process: one more than the
\* cache holds, so that an entry is evicted.
MaxClients == maxsize + 1

\* a caller that is not inside get_llm and has not called it
NoCall == [pc |-> "out", key |-> [model_name |-> "", kwargs |-> {}], client |-> 0]

\* a save_note request that has not started
NoSave == [pc |-> "out", date |-> "", note |-> [title |-> "", url |-> "", relevance |-> 0],
           data |-> <<>>, message |-> ""]

NoReq == [op |-> "none"]
NoRes == [op |-> "none"]
NoLoc == [i |-> 0]

Init ==
    /\ env \in Envs
    /\ pc = "idle"
    /\ req = NoReq
    /\ res = NoRes
    /\ loc = NoLoc
    /\ cache = <<>>
    /\ callers = [t \in Callers |-> NoCall]
    /\ built = 0
    /\ store = <<>>
    /\ savers = [t \in Callers |-> NoSave]

\* score_relevance(text, mode) called on its own.
ScoreRelevance ==
    /\ pc = "idle"
    /\ \E text \in ScoreTexts, call \in ScoreAnswers :
         /\ req' = [op |-> "score_relevance", text |-> text, call |-> call]
         /\ res' = [op |-> "score_relevance", raised |-> FALSE,
                    value |-> score_relevance(text, get_llm({}, env), call)]
    /\ pc' = "done"
    /\ UNCHANGED <<store, savers, cache, callers, built, env, loc>>

\* auto_categorize(article, llm, mode) called on its own, with a client.
AutoCategorize ==
    /\ pc = "idle"
    /\ \E article \in Articles, mode \in AiModes, call \in StructureAnswers :
         LET r == auto_categorize(article, call, mode)
         IN  /\ req' = [op |-> "auto_categorize", article |-> article, mode |-> mode, call |-> call]
             /\ res' = [op |-> "auto_categorize", raised |-> r.raised, exc |-> r.exc, value |-> r.out]
    /\ pc' = "done"
    /\ UNCHANGED <<store, savers, cache, callers, built, env, loc>>

\* ingest_news, up to the loop: the fetch has returned its list; get_llm() is
\* called outside every try.
IngestBegin ==
    /\ pc = "idle"
    /\ \E articles \in ArticleLists, page_size \in PageSizes, ai_mode \in AiModes :
         req' = [op |-> "ingest_news", articles |-> articles, page_size |-> page_size, ai_mode |-> ai_mode]
    /\ LET llm == get_llm({}, env)
       IN  IF llm.raises
           THEN /\ res' = [op |-> "ingest_news", raised |-> TRUE, exc |-> llm.exc]
                /\ pc' = "done"
                /\ loc' = NoLoc
           ELSE /\ res' = NoRes
                /\ pc' = "ingest_loop"
                /\ loc' = [i |-> 1, out |-> <<>>]
    /\ UNCHANGED <<store, savers, cache, callers, built, env>>

\* one pass of the loop of ingest_news
IngestArticle ==
    /\ pc = "ingest_loop"
    /\ loc.i <= Len(req.articles)
    /\ \E catCall \in IngestStructureAnswers, relCall \in IngestScoreAnswers :
         loc' = [i |-> loc.i + 1,
                 out |-> Append(loc.out, IngestItem(req.articles[loc.i], req.ai_mode,
                                                    get_llm({}, env), catCall, relCall))]
    /\ UNCHANGED <<store, savers, cache, callers, built, env, pc, req, res>>

\* ingest_news, after the loop: sort, cap, respond
IngestEnd ==
    /\ pc = "ingest_loop"
    /\ loc.i > Len(req.articles)
    /\ LET items == SortAndCap(loc.out, req.page_size)
       IN  res' = [op |-> "ingest_news", raised |-> FALSE, items |-> items, count |-> Len(items)]
    /\ pc' = "done"
    /\ loc' = NoLoc
    /\ UNCHANGED <<store, savers, cache, callers, built, env, req>>

\* analyze_pdf_text, up to the loop: get_llm() is called outside every try;
\* at most MaxChunks chunks are sent.
AnalyzeBegin ==
    /\ pc = "idle"
    /\ \E job \in PdfJobs :
         /\ req' = [op |-> "analyze_pdf_text", full_text |-> job.full_text,
                    chunk_size |-> job.chunk_size, overlap |-> job.overlap, script |-> job.script]
         /\ LET llm == get_llm({}, env)
            IN  IF llm.raises
                THEN /\ res' = [op |-> "analyze_pdf_text", raised |-> TRUE, exc |-> llm.exc]
                     /\ pc' = "done"
                     /\ loc' = NoLoc
                ELSE /\ res' = NoRes
                     /\ pc' = "analyze_loop"
                     /\ loc' = [i |-> 1,
                                chunks |-> Prefix(chunk_text(job.full_text, job.chunk_size, job.overlap),
                                                  MaxChunks),
                                all_items |-> <<>>, raw_responses |-> <<>>]
    /\ UNCHANGED <<store, savers, cache, callers, built, env>>

\* one pass of the loop of analyze_pdf_text; an exception leaves the function
AnalyzeStep ==
    /\ pc = "analyze_loop"
    /\ loc.i <= Len(loc.chunks)
    /\ LET call == ScriptAt(req.script, loc.i)
           r == AnalyzeChunk(loc.all_items, call)
       IN  IF r.raised
           THEN /\ res' = [op |-> "analyze_pdf_text", raised |-> TRUE, exc |-> r.exc]
                /\ pc' = "done"
                /\ loc' = NoLoc
           ELSE /\ loc' = [loc EXCEPT !.i = loc.i + 1, !.all_items = r.all_items,
                                      !.raw_responses = Append(loc.raw_responses, call.content)]
                /\ UNCHANGED <<pc, res>>
    /\ UNCHANGED <<store, savers, cache, callers, built, env, req>>

\* analyze_pdf_text, after the loop: dedupe, group, sort, return.  loc keeps
\* the locals of the call until the caller has taken the result.
AnalyzeEnd ==
    /\ pc = "analyze_loop"
    /\ loc.i > Len(loc.chunks)
    /\ LET a == Aggregate(loc.all_items)
       IN  res' = IF a.raised
                  THEN [op |-> "analyze_pdf_text", raised |-> TRUE, exc |-> a.exc]
                  ELSE [op |-> "analyze_pdf_text", raised |-> FALSE, grouped |-> a.grouped,
                        raw_responses |-> loc.raw_responses]
    /\ pc' = "done"
    /\ UNCHANGED <<store, savers, cache, callers, built, env, req, loc>>

\* extract_pdf_text_bytes(file_bytes, enable_ocr) called on its own
ExtractPdfTextBytes ==
    /\ pc = "idle"
    /\ \E file_bytes \in Uploads, enable_ocr \in BOOLEAN :
         LET r == extract_pdf_text_bytes(file_bytes, enable_ocr)
         IN  /\ req' = [op |-> "extract_pdf_text_bytes", file_bytes |-> file_bytes,
                        enable_ocr |-> enable_ocr]
             /\ res' = IF r.raised
                       THEN [op |-> "extract_pdf_text_bytes", raised |-> TRUE, exc |-> r.exc]
                       ELSE [op |-> "extract_pdf_text_bytes", raised |-> FALSE, full |-> r.full,
                             pages |-> r.pages, page_count |-> r.page_count,
                             ocr_calls |-> r.ocr_calls]
    /\ pc' = "done"
    /\ UNCHANGED <<store, savers, cache, callers, built, env, loc>>

\* analyze_pdf_and_build_notes(full_text, deep_k, min_relevance)
AnalyzePdfAndBuildNotes ==
    /\ pc = "idle"
    /\ \E full_text \in NoteTexts, deep_k \in DeepKs, min_relevance \in MinRelevances, now \in Clock :
         LET r == analyze_pdf_and_build_notes(full_text, deep_k, min_relevance, now)
         IN  /\ req' = [op |-> "analyze_pdf_and_build_notes", full_text |-> full_text,
                        deep_k |-> deep_k, min_relevance |-> min_relevance]
             /\ res' = [op |-> "analyze_pdf_and_build_notes", raised |-> FALSE,
                        grouped |-> r.grouped, total_items |-> r.total_items,
                        categories |-> r.categories, timestamp |-> r.timestamp]
    /\ pc' = "done"
    /\ UNCHANGED <<store, savers, cache, callers, built, env, loc>>

\* POST /pdf/analyze
AnalyzePdf ==
    /\ pc = "idle"
    /\ \E filename \in Filenames, file_bytes \in Uploads, x_api_key \in ApiKeys, mode \in AiModes :
         LET r == analyze_pdf(filename, file_bytes, x_api_key, mode, env)
         IN  /\ req' = [op |-> "analyze_pdf", filename |-> filename, file_bytes |-> file_bytes,
                        x_api_key |-> x_api_key, mode |-> mode]
             /\ res' = [op |-> "analyze_pdf", status |-> r.status, response |-> r]
    /\ pc' = "done"
    /\ UNCHANGED <<store, savers, cache, callers, built, env, loc>>

\* A caller enters get_llm(**key): the wrapper looks the arguments up.  On a
\* hit the cached client is returned at once; on a miss the body of get_llm
\* starts to run, with no lock held.
GetLlmLookup ==
    /\ \E t \in Callers, key \in Configs :
         /\ callers[t].pc /= "building"
         /\ IF CacheHas(cache, key)
            THEN /\ callers' = [callers EXCEPT ![t] = [pc |-> "returned", key |-> key,
                                                       client |-> CacheGet(cache, key)]]
                 /\ cache' = CacheTouch(cache, key)
            ELSE /\ built + Cardinality({u \in Callers : callers[u].pc = "building"}) < MaxClients
                 /\ callers' = [callers EXCEPT ![t] = [pc |-> "building", key |-> key, client |-> 0]]
                 /\ cache' = cache
    /\ UNCHANGED <<store, savers, env, pc, req, res, loc, built>>

\* The body of get_llm ends for a caller that missed: an exception leaves
\* the wrapper and nothing is stored; a client is stored unless the key was
\* added meanwhile, and is returned in either case.
GetLlmReturn ==
    /\ \E t \in Callers :
         /\ callers[t].pc = "building"
         /\ LET key == callers[t].key
                r == get_llm(key.kwargs, env)
            IN  IF r.raises
                THEN /\ callers' = [callers EXCEPT ![t] = [pc |-> "raised", key |-> key, client |-> 0]]
                     /\ UNCHANGED <<cache, built>>
                ELSE /\ built' = built + 1
                     /\ cache' = CacheStore(cache, key, built + 1)
                     /\ callers' = [callers EXCEPT ![t] = [pc |-> "returned", key |-> key, client |-> built + 1]]
    /\ UNCHANGED <<store, savers, env, pc, req, res, loc>>

\* section_for_sentence(sent)
SectionForSentence ==
    /\ pc = "idle"
    /\ \E sent \in SectionSentences :
         /\ req' = [op |-> "section_for_sentence", sent |-> sent]
         /\ res' = [op |-> "section_for_sentence", raised |-> FALSE,
                    value |-> section_for_sentence(sent)]
    /\ pc' = "done"
    /\ UNCHANGED <<store, savers, cache, callers, built, env, loc>>

\* split_into_sections(full_text)
SplitIntoSections ==
    /\ pc = "idle"
    /\ \E full_text \in SectionTexts :
         /\ req' = [op |-> "split_into_sections", full_text |-> full_text]
         /\ res' = [op |-> "split_into_sections", raised |-> FALSE,
                    value |-> split_into_sections(full_text)]
    /\ pc' = "done"
    /\ UNCHANGED <<store, savers, cache, callers, built, env, loc>>

\* tfidf_summarize(text, max_sentences), with or without scikit-learn
TfidfSummarizeCall ==
    /\ pc = "idle"
    /\ \E text \in SummaryTexts, max_sentences \in MaxSentences, installed \in BOOLEAN :
         \E fit \in Fits(Len(sentence_tokenize(text))) :
           /\ req' = [op |-> "tfidf_summarize", text |-> text, max_sentences |-> max_sentences,
                      installed |-> installed, fit |-> fit]
           /\ res' = [op |-> "tfidf_summarize", raised |-> FALSE,
                      value |-> TfidfSummarize(text, max_sentences, installed, fit)]
    /\ pc' = "done"
    /\ UNCHANGED <<store, savers, cache, callers, built, env, loc>>

\* _keyword_fallback_score(text)
KeywordFallbackScore ==
    /\ pc = "idle"
    /\ \E text \in FallbackTexts :
         /\ req' = [op |-> "_keyword_fallback_score", text |-> text]
         /\ res' = [op |-> "_keyword_fallback_score", raised |-> FALSE,
                    value |-> _keyword_fallback_score(text)]
    /\ pc' = "done"
    /\ UNCHANGED <<store, savers, cache, callers, built, env, loc>>

\* chunk_text(s, size, overlap)
ChunkText ==
    /\ pc = "idle"
    /\ \E c \in ChunkCalls :
         /\ req' = [op |-> "chunk_text", s |-> c[1], size |-> c[2], overlap |-> c[3]]
         /\ res' = [op |-> "chunk_text", raised |-> FALSE, value |-> chunk_text(c[1], c[2], c[3])]
    /\ pc' = "done"
    /\ UNCHANGED <<store, savers, cache, callers, built, env, loc>>

\* _normalize_category(cat, text_ctx)
NormalizeCategory ==
    /\ pc = "idle"
    /\ \E l \in 1..Len(CategoryLabels), text_ctx \in CategoryContexts :
         /\ req' = [op |-> "_normalize_category", cat |-> CategoryLabels[l], text_ctx |-> text_ctx]
         /\ res' = [op |-> "_normalize_category", raised |-> FALSE,
                    value |-> _normalize_category(CategoryLabels[l], text_ctx)]
    /\ pc' = "done"
    /\ UNCHANGED <<store, savers, cache, callers, built, env, loc>>

\* _safe_json_extract(s) on a wrapped object
SafeJsonExtract ==
    /\ pc = "idle"
    /\ \E object \in JsonObjects, w \in Wrappings :
         /\ req' = [op |-> "_safe_json_extract", object |-> object, before |-> w[1], after |-> w[2]]
         /\ res' = [op |-> "_safe_json_extract", raised |-> FALSE,
                    value |-> _safe_json_extract(w[1] \o object \o w[2])]
    /\ pc' = "done"
    /\ UNCHANGED <<store, savers, cache, callers, built, env, loc>>

\* _parse_items(raw) on a wrapped object
ParseItems ==
    /\ pc = "idle"
    /\ \E object \in JsonObjects, w \in Wrappings :
         /\ req' = [op |-> "_parse_items", object |-> object, before |-> w[1], after |-> w[2]]
         /\ res' = [op |-> "_parse_items", raised |-> FALSE,
                    value |-> _parse_items(w[1] \o object \o w[2])]
    /\ pc' = "done"
    /\ UNCHANGED <<store, savers, cache, callers, built, env, loc>>

\* POST /notes/save, /notes/delete_one, DELETE /notes/delete/{date} and
\* GET /notes/list/{date}, one request at a time: _load, the handler, _save.
SaveNote ==
    /\ pc = "idle"
    /\ \E date \in NoteDates, note \in SavedNotes :
         LET r == save_note(store, date, note)
         IN  /\ req' = [op |-> "save_note", date |-> date, note |-> note, before |-> store]
             /\ res' = [op |-> "save_note", status |-> r.status, message |-> r.message]
             /\ store' = IF r.write THEN r.data ELSE store
    /\ pc' = "done"
    /\ UNCHANGED <<savers, cache, callers, built, env, loc>>

ListNotes ==
    /\ pc = "idle"
    /\ \E date \in NoteDates :
         LET r == list_notes(store, date)
         IN  /\ req' = [op |-> "list_notes", date |-> date, before |-> store]
             /\ res' = [op |-> "list_notes", status |-> r.status, date |-> r.date, items |-> r.items]
             /\ store' = IF r.write THEN r.data ELSE store
    /\ pc' = "done"
    /\ UNCHANGED <<savers, cache, callers, built, env, loc>>

DeleteDay ==
    /\ pc = "idle"
    /\ \E date \in NoteDates :
         LET r == delete_day(store, date)
         IN  /\ req' = [op |-> "delete_day", date |-> date, before |-> store]
             /\ res' = [op |-> "delete_day", status |-> r.status, message |-> r.message]
             /\ store' = IF r.write THEN r.data ELSE store
    /\ pc' = "done"
    /\ UNCHANGED <<savers, cache, callers, built, env, loc>>

DeleteOneNote ==
    /\ pc = "idle"
    /\ \E date \in NoteDates \cup {""}, title \in PayloadTitles, url \in PayloadUrls :
         LET r == delete_one_note(store, date, title, url)
         IN  /\ req' = [op |-> "delete_one_note", date |-> date, title |-> title, url |-> url,
                        before |-> store]
             /\ res' = [op |-> "delete_one_note", status |-> r.status, message |-> r.message]
             /\ store' = IF r.write THEN r.data ELSE store
    /\ pc' = "done"
    /\ UNCHANGED <<savers, cache, callers, built, env, loc>>

\* save_note in a request that runs beside another: _load() and the look for
\* an equal note, up to the answer "Already saved" or to the list to write
SaveNoteLoad ==
    /\ \E t \in Callers, date \in NoteDates, note \in SavedNotes :
         /\ savers[t].pc = "out"
         /\ LET r == save_note(store, date, note)
            IN  savers' = [savers EXCEPT ![t] =
                             [pc |-> IF r.write THEN "loaded" ELSE "done", date |-> date,
                              note |-> note, data |-> r.data, message |-> IF r.write THEN "" ELSE r.message]]
    /\ UNCHANGED <<store, cache, callers, built, env, pc, req, res, loc>>

\* _save(data) and the answer "Saved"
SaveNoteWrite ==
    /\ \E t \in Callers :
         /\ savers[t].pc = "loaded"
         /\ store' = savers[t].data
         /\ savers' = [savers EXCEPT ![t].pc = "done", ![t].message = "Saved"]
    /\ UNCHANGED <<cache, callers, built, env, pc, req, res, loc>>

\* _ensure_list(value) of utils/categorizer.py or of api/routes/news.py, and
\* the same function on its result
EnsureList ==
    /\ pc = "idle"
    /\ \E k \in 1..Len(EnsureValues), module \in {"categorizer", "news"} :
         LET once  == IF module = "news" THEN news_ensure_list(EnsureValues[k])
                      ELSE _ensure_list(EnsureValues[k])
             again == PyList([i \in 1..Len(once) |-> PyStr(once[i])])
         IN  /\ req' = [op |-> "_ensure_list", module |-> module, value |-> EnsureValues[k]]
             /\ res' = [op |-> "_ensure_list", raised |-> FALSE, value |-> once,
                        again |-> IF module = "news" THEN news_ensure_list(again)
                                  ELSE _ensure_list(again)]
    /\ pc' = "done"
    /\ UNCHANGED <<store, savers, cache, callers, built, env, loc>>

\* The caller takes the result; the next request may start.
Respond ==
    /\ pc = "done"
    /\ pc' = "idle"
    /\ req' = NoReq
    /\ res' = NoRes
    /\ loc' = NoLoc
    /\ UNCHANGED <<store, savers, cache, callers, built, env>>

Next ==
    \/ ScoreRelevance
    \/ AutoCategorize
    \/ IngestBegin
    \/ IngestArticle
    \/ IngestEnd
    \/ AnalyzeBegin
    \/ AnalyzeStep
    \/ AnalyzeEnd
    \/ ExtractPdfTextBytes
    \/ AnalyzePdfAndBuildNotes
    \/ AnalyzePdf
    \/ SectionForSentence
    \/ SplitIntoSections
    \/ TfidfSummarizeCall
    \/ KeywordFallbackScore
    \/ ChunkText
    \/ NormalizeCategory
    \/ SafeJsonExtract
    \/ ParseItems
    \/ EnsureList
    \/ Respond

Spec == Init /\ [][Next]_vars

\* The program restricted to one operation: every request is of that kind.
NextRelevance == ScoreRelevance \/ Respond
SpecRelevance == Init /\ [][NextRelevance]_vars

NextPdfText == AnalyzeBegin \/ AnalyzeStep \/ AnalyzeEnd \/ Respond
SpecPdfText == Init /\ [][NextPdfText]_vars

NextReader == ExtractPdfTextBytes \/ Respond
SpecReader == Init /\ [][NextReader]_vars

NextNotes == AnalyzePdfAndBuildNotes \/ Respond
SpecNotes == Init /\ [][NextNotes]_vars

\* The sectioning of a document's sentences on its own.
NextSections == SectionForSentence \/ SplitIntoSections \/ Respond
SpecSections == Init /\ [][NextSections]_vars

\* The local summarizer on its own.
NextSummary == TfidfSummarizeCall \/ Respond
SpecSummary == Init /\ [][NextSummary]_vars

\* The keyword scorer on its own.
NextFallback == KeywordFallbackScore \/ Respond
SpecFallback == Init /\ [][NextFallback]_vars

\* The chunker on its own.
NextChunks == ChunkText \/ Respond
SpecChunks == Init /\ [][NextChunks]_vars

\* The list normalizer on its own.
NextEnsure == EnsureList \/ Respond
SpecEnsure == Init /\ [][NextEnsure]_vars

\* The category normalizer on its own.
NextCategory == NormalizeCategory \/ Respond
SpecCategory == Init /\ [][NextCategory]_vars

\* The two response parsers on their own.
NextParsing == SafeJsonExtract \/ ParseItems \/ Respond
SpecParsing == Init /\ [][NextParsing]_vars

\* The notes store under requests that come one at a time.
NextNotesStore == SaveNote \/ ListNotes \/ DeleteDay \/ DeleteOneNote \/ Respond
SpecNotesStore == Init /\ [][NextNotesStore]_vars

\* The notes store under two save requests that run at the same time.
NextNotesRace == SaveNoteLoad \/ SaveNoteWrite
SpecNotesRace == Init /\ [][NextNotesRace]_vars

\* The client cache on its own, under callers that race.
NextCache == GetLlmLookup \/ GetLlmReturn
SpecCache == Init /\ [][NextCache]_vars

-----------------------------------------------------------------------------
(* The properties checked.                                                 *)

\* the result of a finished call of operation op
Returned(op) == pc = "done" /\ res.op = op

\* the items of a grouped result, group after group
ItemsOf(grouped) == Flatten([g \in 1..Len(grouped) |-> grouped[g][2]])

\* C1: no failure of the transformer makes an entry point fail: whether
\* get_llm raises, a call raises or the response is malformed, ingest_news and
\* analyze_pdf_text return a result, and a request to /pdf/analyze that has
\* the key and a readable PDF is answered with status 200.
C1_NoFailurePropagates ==
    /\ Returned("ingest_news") => ~res.raised
    /\ Returned("analyze_pdf_text") => ~res.raised
    /\ (/\ Returned("analyze_pdf")
        /\ req.x_api_key = ExpectedApiKey
        /\ EndsWith(Lower(req.filename), ".pdf")
        /\ req.file_bytes.opens) => res.status = 200

\* whether a Python value is an integer in 0..10
C2_IsBoundedInt(x) == IsInt(x) /\ ~x.v[1] /\ x.v[2] \in 0..10

\* C2: the relevance of every item any path produces is an integer in 0..10,
\* never null, whatever the transformer returns; a relevance of 12 from the
\* transformer does not reach the output.
C2_RelevanceInRange ==
    /\ (Returned("ingest_news") /\ ~res.raised) =>
          \A i \in 1..Len(res.items) : res.items[i].relevance \in 0..10
    /\ Returned("analyze_pdf_and_build_notes") =>
          \A i \in 1..Len(ItemsOf(res.grouped)) : ItemsOf(res.grouped)[i].relevance \in 0..10
    /\ (Returned("analyze_pdf_text") /\ ~res.raised) =>
          \A i \in 1..Len(ItemsOf(res.grouped)) :
             C2_IsBoundedInt(DictGet(ItemsOf(res.grouped)[i].v, "relevance", PyNone))

C3_ListFields == {"prelims_points", "mains_angles", "interview_questions",
                  "schemes_acts_policies", "institutions", "dates"}

\* a non-empty string without whitespace at its ends and with a letter or digit
C3_CleanString(s) == s /= "" /\ Strip(s) = s /\ AnyAlnum(s)

\* a list of clean strings, as a Python value
C3_CleanList(x) ==
    /\ x.t = "list"
    /\ \A k \in 1..Len(x.v) : x.v[k].t = "str" /\ C3_CleanString(x.v[k].v)

\* C3: every list field of every item any path produces is a list of
\* non-empty strings without whitespace at their ends and with at least one
\* letter or digit: the transformer's values, the fallback values (the
\* "Headline: <title>" point of an untrimmed title) and the items
\* analyze_pdf_text passes through.
C3_ListFieldsClean ==
    /\ (Returned("ingest_news") /\ ~res.raised) =>
          \A i \in 1..Len(res.items), f \in C3_ListFields :
             \A k \in 1..Len(res.items[i][f]) : C3_CleanString(res.items[i][f][k])
    /\ Returned("analyze_pdf_and_build_notes") =>
          \A i \in 1..Len(ItemsOf(res.grouped)), f \in {"prelims_points", "mains_angles"} :
             \A k \in 1..Len(ItemsOf(res.grouped)[i].deep[f]) :
                C3_CleanString(ItemsOf(res.grouped)[i].deep[f][k])
    /\ (Returned("analyze_pdf_text") /\ ~res.raised) =>
          \A i \in 1..Len(ItemsOf(res.grouped)), f \in C3_ListFields :
             HasKey(ItemsOf(res.grouped)[i].v, f) =>
                C3_CleanList(DictGet(ItemsOf(res.grouped)[i].v, f, PyNone))

\* C4: in the result of analyze_pdf_and_build_notes, total_items is the sum
\* of the lengths of the lists of grouped, categories is the list of the
\* keys of grouped, and no key has an empty list.
C4_CountsMatchGroups ==
    Returned("analyze_pdf_and_build_notes") =>
        /\ res.total_items = Len(ItemsOf(res.grouped))
        /\ Len(res.categories) = Len(res.grouped)
        /\ \A k \in 1..Len(res.grouped) :
              /\ res.categories[k] = res.grouped[k][1]
              /\ res.grouped[k][2] /= <<>>
              /\ \A o \in 1..(k - 1) : res.grouped[o][1] /= res.grouped[k][1]

\* a text of four sections with min_relevance = 4: two sections are dropped
\* for their relevance, two are kept
C4_SomeSectionsDropped ==
    /\ Returned("analyze_pdf_and_build_notes")
    /\ req.min_relevance = 4
    /\ Len(split_into_sections(req.full_text)) = 4
    /\ res.total_items = 2
    /\ res.categories = <<"polity", "economy">>

\* the title key the aggregation is to go by: trimmed, lower-cased, cut to 120
C5_Key(it) ==
    LET t == DictGet(it.v, "title", PyStr(""))
    IN  IF t.t = "str" THEN SubSeq(Lower(Strip(t.v)), 1, Min(120, Len(Lower(Strip(t.v))))) ELSE ""

\* C5: the aggregation of analyze_pdf_text keeps at most one item per
\* normalised title (trimmed, lower-cased, cut to 120 characters): the first
\* of the raw items, in input order, that has the key.
C5_FirstPerTitleKept ==
    (Returned("analyze_pdf_text") /\ ~res.raised) =>
        LET out == ItemsOf(res.grouped)
            raw == loc.all_items
        IN  /\ \A i, j \in 1..Len(out) : i /= j => C5_Key(out[i]) /= C5_Key(out[j])
            /\ \A i \in 1..Len(out) :
                  \E k \in 1..Len(raw) :
                     /\ raw[k] = out[i]
                     /\ \A o \in 1..(k - 1) : C5_Key(raw[o]) /= C5_Key(out[i])
            /\ \A k \in 1..Len(raw) :
                  C5_Key(raw[k]) /= "" => \E i \in 1..Len(out) : C5_Key(out[i]) = C5_Key(raw[k])

\* thirty raw items whose titles differ in letter case only, one item out:
\* the first of them
C5_ThirtySpellingsOneItem ==
    /\ Returned("analyze_pdf_text")
    /\ ~res.raised
    /\ Len(loc.all_items) = 30
    /\ \A i, j \in 1..30 :
          i /= j => DictGet(loc.all_items[i].v, "title", PyNone) /= DictGet(loc.all_items[j].v, "title", PyNone)
    /\ ItemsOf(res.grouped) = <<loc.all_items[1]>>

\* ten times a relevance that is a number of at most one decimal
C6_Tenths(it) ==
    LET r == DictGet(it.v, "relevance", PyInt(0))
        f == IF r.v[3] = "" THEN 0 ELSE DigitVal[Ch(r.v[3], 1)]
    IN  IF r.v[1] THEN 0 - (10 * r.v[2] + f) ELSE 10 * r.v[2] + f

C6_HasTenths(it) ==
    LET r == DictGet(it.v, "relevance", PyInt(0))
    IN  r.t = "num" /\ Len(r.v[3]) <= 1

\* the place of an item among the raw items
C6_Place(it) == CHOOSE k \in 1..Len(loc.all_items) :
                   loc.all_items[k] = it /\ \A o \in 1..(k - 1) : loc.all_items[o] /= it

\* C6: in each group of the aggregation's result the relevances do not
\* increase, and items of equal relevance are in their input order.
C6_GroupsSortedStable ==
    (Returned("analyze_pdf_text") /\ ~res.raised) =>
        \A g \in 1..Len(res.grouped) :
           LET items == res.grouped[g][2]
           IN  \A i, j \in 1..Len(items) :
                  (i < j /\ C6_HasTenths(items[i]) /\ C6_HasTenths(items[j])) =>
                     /\ C6_Tenths(items[i]) >= C6_Tenths(items[j])
                     /\ C6_Tenths(items[i]) = C6_Tenths(items[j]) =>
                           C6_Place(items[i]) < C6_Place(items[j])

C7_Keys == {"summary_en", "summary_hi", "prelims_points", "mains_angles", "interview_questions",
            "schemes_acts_policies", "institutions", "dates", "category"}

\* C7: whatever the transformer does, auto_categorize does not raise and
\* returns a dict with the nine keys.
C7_AlwaysNineKeys ==
    Returned("auto_categorize") =>
        /\ ~res.raised
        /\ C7_Keys \subseteq DOMAIN res.value

\* C8: extract_pdf_text_bytes does not raise on bytes the reader cannot
\* read: for empty bytes and for bytes fitz.open rejects it returns the
\* empty text.
C8_UnreadableGivesEmptyText ==
    (Returned("extract_pdf_text_bytes") /\ ~req.file_bytes.opens) =>
        /\ ~res.raised
        /\ res.full = ""

\* the text a page has without OCR: its text, or else its blocks joined
C9_Native(page) == IF Strip(page.text) /= "" THEN page.text ELSE Join("\n", page.blocks)

\* the native extraction of a document
C9_NativeText(file_bytes) ==
    Join("\n\n", [pno \in 1..Len(file_bytes.pages) |-> C9_Native(file_bytes.pages[pno])])

\* the pages without native text
C9_BlankPages(file_bytes) ==
    {pno \in 1..Len(file_bytes.pages) : Strip(C9_Native(file_bytes.pages[pno])) = ""}

C10_FirstNumber(s) ==
    IF \A i \in 1..Len(s) : ~IsDigit(Ch(s, i)) THEN -1
    ELSE LET i == CHOOSE x \in 1..Len(s) : IsDigit(Ch(s, x)) /\ \A k \in 1..(x - 1) : ~IsDigit(Ch(s, k))
         IN  IF IsDigit(Ch(s, i + 1)) THEN 10 * DigitVal[Ch(s, i)] + DigitVal[Ch(s, i + 1)]
             ELSE DigitVal[Ch(s, i)]

\* whether the transformer answered the scorer: the client was built and
\* the call returned
C10_Answered == ~get_llm({}, env).raises /\ ~req.call.raises

\* C10: score_relevance does not raise and returns an integer in 0..10: the
\* first number of one or two digits of the transformer's answer, cut to
\* 10, when that is at least 1; the keyword score of the text when there is
\* no number, when the number is 0, or when the client or the call failed.
C10_ScoreParsedOrKeyword ==
    Returned("score_relevance") =>
        /\ ~res.raised
        /\ res.value \in 0..10
        /\ LET n == IF C10_Answered THEN C10_FirstNumber(req.call.content) ELSE -1
           IN  IF n >= 1
               THEN res.value = Min(10, n)
               ELSE res.value = _keyword_fallback_score(req.text)

\* the transformer answers 12: the score is 10, whatever the keywords say
C10_TwelveBecomesTen ==
    /\ Returned("score_relevance")
    /\ C10_Answered
    /\ req.call.content = "12"
    /\ _keyword_fallback_score(req.text) /= 10
    /\ res.value = 10

\* C11: the category of every item any path produces is one of the ten
\* allowed categories, whatever category the transformer returned: in the
\* result of auto_categorize, of ingest_news, of analyze_pdf_and_build_notes
\* and of analyze_pdf_text.
C11_CategoryInClosedSet ==
    /\ (Returned("auto_categorize") /\ ~res.raised) => res.value.category \in ALLOWED_CATEGORIES
    /\ (Returned("ingest_news") /\ ~res.raised) =>
          \A i \in 1..Len(res.items) : res.items[i].category \in ALLOWED_CATEGORIES
    /\ Returned("analyze_pdf_and_build_notes") =>
          \A i \in 1..Len(ItemsOf(res.grouped)) :
             ItemsOf(res.grouped)[i].category \in ALLOWED_CATEGORIES
    /\ (Returned("analyze_pdf_text") /\ ~res.raised) =>
          \A i \in 1..Len(ItemsOf(res.grouped)) :
             LET cat == DictGet(ItemsOf(res.grouped)[i].v, "category", PyNone)
             IN  cat.t = "str" /\ cat.v \in ALLOWED_CATEGORIES

\* C12: ingest_news always returns items: one item for each fetched article,
\* in non-increasing order of relevance, cut to max(1, page_size) items, and
\* count is the number of items returned.
C12_OneItemPerArticleRanked ==
    Returned("ingest_news") =>
        /\ ~res.raised
        /\ Len(res.items) = Min(Len(req.articles), Max(1, req.page_size))
        /\ \A i, j \in 1..Len(res.items) : i < j => res.items[i].relevance >= res.items[j].relevance
        /\ res.count = Len(res.items)

\* the cache holds at most maxsize entries, one for a key, each a client
\* that was built; a caller that has returned holds a client that was built
C13_CacheSound ==
    /\ Len(cache) <= 4
    /\ \A i, j \in 1..Len(cache) : i /= j => cache[i].key /= cache[j].key
    /\ \A i \in 1..Len(cache) : cache[i].client \in 1..built
    /\ \A t \in Callers : callers[t].pc = "returned" => callers[t].client \in 1..built
    /\ get_llm({}, env).raises => cache = <<>>

\* one step of the callers: an entry that stays in the cache keeps its
\* client, a call that finds its key cached returns the cached client, and a
\* call whose construction fails stores nothing
C13_CacheStep ==
    /\ \A key \in Configs :
          (CacheHas(cache, key) /\ CacheHas(cache', key)) => CacheGet(cache', key) = CacheGet(cache, key)
    /\ \A t \in Callers :
          (callers'[t] /= callers[t] /\ callers[t].pc /= "building" /\ CacheHas(cache, callers'[t].key)) =>
              /\ callers'[t].pc = "returned"
              /\ callers'[t].client = CacheGet(cache, callers'[t].key)
    /\ \A t \in Callers :
          (callers[t].pc = "building" /\ callers'[t].pc = "raised") => cache' = cache

C14_Candidates ==
    LET sections == split_into_sections(req.full_text)
    IN  {k \in 1..Len(sections) :
           /\ Len(Strip(sections[k][2])) >= 50
           /\ extract_key_headline(sections[k][2]) /= ""}

\* C14: with the caller's min_relevance, a section whose relevance is below
\* the threshold appears nowhere in the result, a section whose relevance is
\* at or above it is kept, and total_items and categories count the kept
\* sections only.
C14_ThresholdFilter ==
    Returned("analyze_pdf_and_build_notes") =>
        LET sections == split_into_sections(req.full_text)
            rel(k) == calculate_relevance(sections[k][2], sections[k][1])
            kept == {k \in C14_Candidates : rel(k) >= req.min_relevance}
            items == ItemsOf(res.grouped)
        IN  /\ \A i \in 1..Len(items) : items[i].relevance >= req.min_relevance
            /\ \A k \in 1..Len(sections) :
                  rel(k) < req.min_relevance =>
                     /\ \A i \in 1..Len(items) : items[i].category /= sections[k][1]
                     /\ \A c \in 1..Len(res.categories) : res.categories[c] /= sections[k][1]
            /\ \A k \in kept :
                  /\ \E i \in 1..Len(items) :
                        items[i].category = sections[k][1] /\ items[i].relevance = rel(k)
                  /\ \E c \in 1..Len(res.categories) : res.categories[c] = sections[k][1]
            /\ res.total_items = Cardinality(kept)
            /\ Len(res.categories) = Cardinality(kept)

\* a call where one section is exactly at the threshold and is kept, and
\* another is below it and is dropped
C14_AtThresholdKept ==
    /\ Returned("analyze_pdf_and_build_notes")
    /\ req.min_relevance > 0
    /\ \E i \in 1..Len(ItemsOf(res.grouped)) : ItemsOf(res.grouped)[i].relevance = req.min_relevance
    /\ \E k \in C14_Candidates :
          calculate_relevance(split_into_sections(req.full_text)[k][2],
                              split_into_sections(req.full_text)[k][1]) < req.min_relevance

\* the number of a section's keywords found in the sentence, whatever its case
C15_Hits(i, sent) ==
    Cardinality({k \in 1..Len(SECTION_KEYWORDS[i][2]) :
                   Contains(Lower(sent), SECTION_KEYWORDS[i][2][k])})

\* C15: section_for_sentence returns the section with the most keywords found
\* in the sentence as case-insensitive substrings; among sections with as many,
\* the one registered first in the keyword table; and "general" when no
\* keyword is found.
C15_MostHitsFirstOnTie ==
    Returned("section_for_sentence") =>
      LET n == Len(SECTION_KEYWORDS)
          hits == [i \in 1..n |-> C15_Hits(i, req.sent)]
      IN  IF \A i \in 1..n : hits[i] = 0
          THEN res.value = "general"
          ELSE \E i \in 1..n :
                 /\ res.value = SECTION_KEYWORDS[i][1]
                 /\ \A k \in 1..n : hits[k] <= hits[i]
                 /\ \A k \in 1..n : hits[k] = hits[i] => i <= k

\* C15 happens: two sections tie for the most hits, the one registered later
\* has its keyword earlier in the sentence, and the earlier section is returned.
C15_TieGoesToFirstRegistered ==
    /\ Returned("section_for_sentence")
    /\ req.sent = "The river met the budget."
    /\ C15_Hits(2, req.sent) = 1
    /\ C15_Hits(8, req.sent) = 1
    /\ \A i \in 1..Len(SECTION_KEYWORDS) : C15_Hits(i, req.sent) <= 1
    /\ res.value = "economy"

\* the positions, in the document's sentences, of those of one section
C16_Places(sentences, section) ==
    {i \in 1..Len(sentences) : section_for_sentence(sentences[i]) = section}

\* C16: split_into_sections keeps, within each section, the sentences in the
\* order they have in the text; the sections come in the order in which their
\* first sentences are met; and a section without a sentence is absent.
C16_SectionsInSourceOrder ==
    Returned("split_into_sections") =>
      LET sentences == sentence_tokenize(clean_text(req.full_text))
          out == res.value
          first(k) == CHOOSE i \in C16_Places(sentences, out[k][1]) :
                         \A j \in C16_Places(sentences, out[k][1]) : i <= j
      IN  /\ \A i \in 1..Len(sentences) :
               \E k \in 1..Len(out) : out[k][1] = section_for_sentence(sentences[i])
          /\ \A k \in 1..Len(out) :
               /\ C16_Places(sentences, out[k][1]) /= {}
               /\ out[k][2] /= ""
               /\ \E f \in [1..Cardinality(C16_Places(sentences, out[k][1])) ->
                              C16_Places(sentences, out[k][1])] :
                    /\ \A a, b \in DOMAIN f : a < b => f[a] < f[b]
                    /\ out[k][2] = Join("\n", [a \in DOMAIN f |-> sentences[f[a]]])
          /\ \A k, l \in 1..Len(out) :
               k < l => out[k][1] /= out[l][1] /\ first(k) < first(l)

\* C16 happens: five sentences give polity, general and geography in that
\* order, not the table's, and polity holds its first and its last sentence.
C16_InterleavedSections ==
    /\ Returned("split_into_sections")
    /\ Len(sentence_tokenize(clean_text(req.full_text))) = 5
    /\ C16_Places(sentence_tokenize(clean_text(req.full_text)), "polity") = {1, 5}
    /\ Len(res.value) = 3
    /\ res.value[1] = <<"polity", CourtSentence \o "\n" \o CourtSentence>>
    /\ res.value[2] = <<"general", QuietSentence \o "\n" \o ClockSentence>>
    /\ res.value[3] = <<"geography", DeltaSentence>>

\* the summary is made of the sentences at the places f[1] < f[2] < ...
C17_IsSummaryOf(summary, sents, f) ==
    /\ \A a, b \in DOMAIN f : a < b => f[a] < f[b]
    /\ summary = Join("\n", [a \in DOMAIN f |-> sents[f[a]]])

\* no sentence left out scores higher than one taken
C17_TopScoring(scores, f) ==
    \A i \in {f[a] : a \in DOMAIN f}, j \in DOMAIN scores \ {f[a] : a \in DOMAIN f} :
      scores[j] <= scores[i]

C18_Hits(tier, text) ==
    Cardinality({k \in 1..Len(tier) : Contains(Lower(text), tier[k])})

\* the score of C18's formula
C18_Formula(text) ==
    LET high_hits == C18_Hits(UPSC_KEYWORDS_high, text)
        medium_hits == C18_Hits(UPSC_KEYWORDS_medium, text)
        low_hits == C18_Hits(UPSC_KEYWORDS_low, text)
    IN  Max(0, Min(10, Min(10, 2 * high_hits + medium_hits) - Min(3, low_hits)))

\* C18, the value: the keyword fallback score is
\* max(0, min(10, min(10, 2*high_hits + medium_hits) - min(3, low_hits))) over
\* the keywords contained in the lower-cased text, is 0 for the empty text and
\* lies in 0..10.
C18_ScoreIsFormula ==
    Returned("_keyword_fallback_score") =>
      /\ res.value = C18_Formula(req.text)
      /\ res.value \in 0..10
      /\ req.text = "" => res.value = 0

\* C18, the effect: a call of the keyword scorer changes nothing but its own
\* result.
C18_CallHasNoEffect ==
    (pc = "idle" /\ pc' = "done" /\ res'.op = "_keyword_fallback_score") =>
      UNCHANGED <<env, cache, callers, built, loc, store, savers>>

\* C18: the keyword fallback score equals the formula, in 0..10 and 0 for the
\* empty text, at every call (so a repeated call gives the same result), and
\* no call changes any state.
C18_FallbackScorePure == []C18_ScoreIsFormula /\ [][C18_CallHasNoEffect]_vars

\* C18 happens: three high keywords give a base of 6 and five low keywords a
\* penalty capped at 3, so the score is 3.
C18_PenaltyCapped ==
    /\ Returned("_keyword_fallback_score")
    /\ C18_Hits(UPSC_KEYWORDS_high, req.text) = 3
    /\ C18_Hits(UPSC_KEYWORDS_medium, req.text) = 0
    /\ C18_Hits(UPSC_KEYWORDS_low, req.text) = 5
    /\ res.value = 3

\* C19: for the rate-cut text scored with a failing transformer (no client can
\* be built, or the call raises) the relevance given by the scorer's keyword
\* fallback is at least 5.
C19_RateCutAtLeastFive ==
    (/\ Returned("score_relevance")
     /\ req.text = RateCutText
     /\ (get_llm({}, env).raises \/ req.call.raises))
      => res.value >= 5

\* C20: every window chunk_text returns has at least 100 characters, the last
\* window of a text whose length is not a multiple of the step included:
\* shorter windows are discarded.
C20_WindowsAtLeastHundred ==
    Returned("chunk_text") =>
      \A k \in 1..Len(res.value) : Len(res.value[k]) >= 100

\* what the structurer can have yielded for a field of the article, over the
\* outcomes of its call
C21_Obtained(art, field) ==
    {news_ensure_list(MetaGet(auto_categorize(art, c, IF req.ai_mode = "" THEN "deep" ELSE req.ai_mode),
                              field)) : c \in IngestStructureAnswers}

\* the article's item has the headline first among its prelims points, if no
\* points were obtained and the title is not empty; and the two templates as
\* its mains angles, if none were obtained
C21_ItemFallsBack(art, item) ==
    /\ (C21_Obtained(art, "prelims_points") = {<<>>} /\ art.title /= "")
         => /\ item.prelims_points /= <<>>
            /\ item.prelims_points[1] = "Headline: " \o art.title
    /\ C21_Obtained(art, "mains_angles") = {<<>>}
         => item.mains_angles = <<"Explain implications for governance/public policy.",
                                  "Discuss potential impact on economy and society.">>

\* C21: when the transformer call fails or yields no prelims points and the
\* article has a title, the item ingest_news produces has prelims points, the
\* first restating the headline; when no mains angles were obtained its
\* mains_angles are the two fixed templates, in their order.
C21_FallbackPoints ==
    /\ pc = "ingest_loop" =>
         \A k \in 1..Len(loc.out) : C21_ItemFallsBack(req.articles[k], loc.out[k])
    /\ Returned("ingest_news") /\ ~res.raised =>
         \A k \in 1..Len(res.items) :
           \E a \in 1..Len(req.articles) : C21_ItemFallsBack(req.articles[a], res.items[k])

\* C21 happens: an article with a title and "RBI" in it is returned with the
\* headline as its first point, the cue as its second, and the two templates.
C21_HeadlineThenCue ==
    /\ Returned("ingest_news")
    /\ ~res.raised
    /\ \E k \in 1..Len(res.items) :
         /\ res.items[k].title = "RBI policy "
         /\ res.items[k].prelims_points = <<"Headline: RBI policy ", "RBI-related update">>
         /\ res.items[k].mains_angles = <<"Explain implications for governance/public policy.",
                                          "Discuss potential impact on economy and society.">>

\* the rule order C22 names
C22_RuleOrder ==
    <<"polity", "economy", "international", "environment", "science_tech", "social", "security",
      "geography", "governance">>

\* the rules one of whose keywords occurs in the lower-cased context
C22_RulesHit(ctx) ==
    {i \in 1..Len(NormalizeRules) :
       \E k \in 1..Len(NormalizeRules[i][2]) : Contains(Lower(ctx), NormalizeRules[i][2][k])}

\* C22: _normalize_category(cat, ctx) returns cat trimmed, lower-cased and with
\* underscores for spaces when that is in the closed set, whatever ctx is;
\* otherwise the label of the first rule, in the order polity, economy,
\* international, environment, science_tech, social, security, geography,
\* governance, with a keyword in lower-cased ctx; otherwise general.
C22_NormalizePrecedence ==
    Returned("_normalize_category") =>
      LET c == IF req.cat.t = "str" THEN SpacesToUnderscores(Lower(Strip(req.cat.v))) ELSE ""
          hit == C22_RulesHit(req.text_ctx)
      IN  /\ [i \in 1..Len(NormalizeRules) |-> NormalizeRules[i][1]] = C22_RuleOrder
          /\ IF c \in ALLOWED_CATEGORIES THEN res.value = c
             ELSE IF hit /= {}
             THEN \E i \in hit : res.value = C22_RuleOrder[i] /\ \A k \in hit : i <= k
             ELSE res.value = "general"

\* C22 happens: the label " science tech " wins over a context with economy
\* keywords, and a label outside the set leaves "ISRO launch" to the first
\* rule that hits, international ("un"), before science_tech.
C22_LabelBeforeRules ==
    /\ Returned("_normalize_category")
    /\ \/ /\ req.cat.t = "str" /\ req.cat.v = " science tech "
          /\ req.text_ctx = "RBI cuts repo rate"
          /\ C22_RulesHit(req.text_ctx) = {2}
          /\ res.value = "science_tech"
       \/ /\ req.cat.t = "str" /\ req.cat.v = "sports"
          /\ req.text_ctx = "ISRO launch"
          /\ C22_RulesHit(req.text_ctx) = {3, 5}
          /\ res.value = "international"

\* C23: a response that holds a valid JSON object inside a code fence, and/or
\* with commentary before and after it, is parsed to the same structure as
\* the object alone, by _safe_json_extract and by _parse_items.
C23_WrappingTolerated ==
    /\ Returned("_safe_json_extract") =>
         PyRepr(res.value) = PyRepr(_safe_json_extract(req.object))
    /\ Returned("_parse_items") =>
         PyRepr(res.value) = PyRepr(_parse_items(req.object))

\* the list holds a note with this title and url
C24_Holds(items, note) ==
    \E i \in 1..Len(items) : items[i].title = note.title /\ items[i].url = note.url

\* C24: under save_note, delete_day and delete_one_note requests that come one
\* at a time, no date's list ever holds two notes with the same title and
\* url; and saving a note whose title and url are already under the date
\* answers "Already saved" and leaves the store as it was.
C24_PairsStayUnique ==
    /\ \A d \in DOMAIN store :
         \A i, j \in 1..Len(store[d]) :
           (store[d][i].title = store[d][j].title /\ store[d][i].url = store[d][j].url) => i = j
    /\ (pc = "done" /\ res.op = "save_note") =>
         IF C24_Holds(NotesAt(req.before, req.date), req.note)
         THEN res.message = "Already saved" /\ store = req.before
         ELSE /\ res.message = "Saved"
              /\ NotesAt(store, req.date) = Append(NotesAt(req.before, req.date), req.note)

\* C24 happens: a note is saved again with another relevance, under a date
\* that holds a second note too, and is answered "Already saved".
C24_SavedAgain ==
    /\ pc = "done"
    /\ res.op = "save_note"
    /\ res.message = "Already saved"
    /\ Len(NotesAt(store, req.date)) = 2
    /\ \E i \in 1..2 :
         /\ store[req.date][i].title = req.note.title
         /\ store[req.date][i].url = req.note.url
         /\ store[req.date][i].relevance /= req.note.relevance

\* C25: when two save_note requests for different notes run at the same time,
\* each loading the store, appending its note and writing the store back, both
\* notes are in the store once both requests have completed: no save that was
\* answered "Saved" is lost to the other request's write.
C25_NoSaveLost ==
    (/\ \A t \in Callers : savers[t].pc = "done"
     /\ \A t, u \in Callers :
          t /= u => (savers[t].date /= savers[u].date \/ savers[t].note /= savers[u].note))
      => \A t \in Callers :
           savers[t].message = "Saved" =>
             \E i \in 1..Len(NotesAt(store, savers[t].date)) :
               store[savers[t].date][i] = savers[t].note

\* C26: delete_one_note removes from the given date exactly the notes that match
\* the supplied keys (title and url when both are given, else the title alone,
\* else the url alone) and leaves every other note, their order and every other
\* date as they were; when no note matches, or neither key is given, it answers
\* 404 and the store is unchanged.
C26_Matches(x, title, url) ==
    IF title /= "" /\ url /= "" THEN x.title = title /\ x.url = url
    ELSE IF title /= "" THEN x.title = title
    ELSE IF url /= "" THEN x.url = url
    ELSE FALSE

C26_DeletesExactlyMatches ==
    (pc = "done" /\ req.op = "delete_one_note" /\ req.date /= "") =>
      LET items == NotesAt(req.before, req.date)
          rest  == {i \in 1..Len(items) : ~C26_Matches(items[i], req.title, req.url)}
      IN  IF Cardinality(rest) = Len(items)
          THEN res.status = 404 /\ store = req.before
          ELSE /\ res.status = 200
               /\ DOMAIN store = DOMAIN req.before
               /\ \A d \in DOMAIN store : d /= req.date => store[d] = req.before[d]
               /\ Len(store[req.date]) = Cardinality(rest)
               /\ \A i \in rest :
                    store[req.date][Cardinality({j \in rest : j <= i})] = items[i]

\* a title and a url are given and only one of two notes with that title goes
C26_OneOfTwoTitles ==
    /\ pc = "done" /\ req.op = "delete_one_note" /\ res.status = 200
    /\ req.title = "A" /\ req.url = "u1"
    /\ Len(NotesAt(req.before, req.date)) = 3
    /\ Len(NotesAt(store, req.date)) = 2
    /\ \E i \in 1..2 : store[req.date][i].title = "A" /\ store[req.date][i].url = "u2"
    /\ \E d \in DOMAIN store : d /= req.date /\ store[d] /= <<>>

\* C27: list_notes answers 200 with the notes of the date ordered by
\* non-increasing relevance, the same notes as stored, each as many times; the
\* store, its dates and the stored order of every list stay as they were; a
\* date without notes gives the empty list and no error.
C27_ListSortsACopy ==
    (pc = "done" /\ req.op = "list_notes") =>
      LET items == NotesAt(req.before, req.date)
      IN  /\ store = req.before
          /\ res.status = 200 /\ res.date = req.date
          /\ Len(res.items) = Len(items)
          /\ \A i \in 1..Len(items) :
               Cardinality({j \in 1..Len(items) : res.items[j] = items[i]})
                 = Cardinality({j \in 1..Len(items) : items[j] = items[i]})
          /\ \A i \in 1..Len(res.items) : \A j \in i..Len(res.items) :
               res.items[i].relevance >= res.items[j].relevance
          /\ (req.date \notin DOMAIN req.before => res.items = <<>>)

\* three notes stored in rising relevance are listed in another order
C27_ListedInAnotherOrder ==
    /\ pc = "done" /\ req.op = "list_notes" /\ res.status = 200
    /\ Len(res.items) = 3
    /\ res.items /= NotesAt(store, req.date)
    /\ store[req.date][1].relevance < store[req.date][2].relevance

\* the step of chunk_text's loop
C28_Step == IF req.size - req.overlap >= 1 THEN req.size - req.overlap ELSE 1

\* C28: chunk_text ends for every text, size of at least 1 and overlap, an
\* overlap of the size or more included, where it advances by one character:
\* it returns one window for each start 0, step, 2*step, ... below the length
\* of the text, in that order, each the characters from its start and no longer
\* than size; when 0 <= overlap < size the step is size - overlap and every
\* character of the text lies in a window.
C28_WindowsCoverInOrder ==
    (Returned("chunk_text") /\ req.size >= 1) =>
      LET n    == Len(req.s)
          step == C28_Step
          out  == res.value
      IN  /\ Len(out) = (n + step - 1) \div step
          /\ \A k \in 1..Len(out) :
               /\ out[k] = SubSeq(req.s, (k - 1) * step + 1, Min(n, (k - 1) * step + req.size))
               /\ Len(out[k]) <= req.size
               /\ Len(out[k]) >= 1
          /\ (0 <= req.overlap /\ req.overlap < req.size) =>
               /\ step = req.size - req.overlap
               /\ \A p \in 1..n : \E k \in 1..Len(out) :
                    (k - 1) * step < p /\ p <= (k - 1) * step + Len(out[k])

\* an overlap above the size: one window for each character of the text
C28_OverlapAboveSize ==
    /\ Returned("chunk_text")
    /\ req.overlap > req.size /\ Len(req.s) = 12
    /\ Len(res.value) = 12
    /\ Len(res.value[1]) = req.size /\ Len(res.value[12]) = 1

\* the title of a raw item is a string with a character that is no whitespace
C29_Titled(it) ==
    LET t == DictGet(it.v, "title", PyNone)
    IN  t.t = "str" /\ Strip(t.v) /= ""

\* the normalised titles of the raw items that have one
C29_Titles(raw) ==
    {Prefix(Lower(Strip(DictGet(raw[k].v, "title", PyNone).v)), 120) :
       k \in {i \in 1..Len(raw) : C29_Titled(raw[i])}}

\* C29: in the result of analyze_pdf_text no item has a title that is missing,
\* null, empty or whitespace only: the dedupe step drops such an item, also
\* when no other item is there; so the groups hold as many items as the raw
\* items have distinct non-empty normalised titles.
C29_UntitledNeverGrouped ==
    (Returned("analyze_pdf_text") /\ ~res.raised) =>
        LET out == ItemsOf(res.grouped)
        IN  /\ \A i \in 1..Len(out) : C29_Titled(out[i])
            /\ Len(out) = Cardinality(C29_Titles(loc.all_items))

\* the only raw items are four without a usable title, and no item is returned
C29_OnlyUntitledItems ==
    /\ Returned("analyze_pdf_text")
    /\ ~res.raised
    /\ Len(loc.all_items) = 4
    /\ \A k \in 1..4 : ~C29_Titled(loc.all_items[k])
    /\ \E k \in 1..4 : ~HasKey(loc.all_items[k].v, "title")
    /\ \E k \in 1..4 : DictGet(loc.all_items[k].v, "title", PyStr("")).t = "none"
    /\ \E k \in 1..4 : LET t == DictGet(loc.all_items[k].v, "title", PyNone)
                       IN  t.t = "str" /\ t.v = "  "
    /\ ItemsOf(res.grouped) = <<>>

\* C30: the list normalizer is idempotent: for every value (none, a list with
\* none, other types or bulleted strings, a string of several lines, any other
\* type) _ensure_list of its own result is that result, in both modules, so a
\* second cleaning changes nothing.
C30_EnsureListIdempotent ==
    Returned("_ensure_list") => res.again = res.value

=============================================================================
